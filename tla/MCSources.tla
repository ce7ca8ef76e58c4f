------------------------------ MODULE MCSources ------------------------------
(* Sources on small sets, with what it takes for their promises of         *)
(* something that happens in the end.                                      *)
EXTENDS Sources

CONSTANTS e1, e2
TwoEvents == {e1, e2}

\* Mail 3 is a copy of mail 2.
ThreeMails   == 1..3
MessageId(m) == IF m = 3 THEN 2 ELSE m

\* The variables of the others start at one value.
MCInit ==
    /\ SourcesInit
    /\ which # "sweep" => mode = "poll"
    /\ which # "mail" => marks
    /\ which # "polls" => source.key = {"name", "status"} /\ \A t \in Things : state[t] = "CLEAR"
    /\ which # "queue" => autoDelete
    /\ which # "following" => follower.name = "relay"
    /\ which # "socket" => \A u \in Uses : kind[u] = "event"

\* The tasks of each: as only one of them runs, its n-th is fair.
Task(n) ==
    CASE which = "sweep"     -> \/ (n = 1 /\ Loop) \/ (n = 2 /\ Tick)
                                \/ (n = 3 /\ Discover) \/ (n = 4 /\ NudgeDiscovered)
      [] which = "debounce"  -> \/ (n = 1 /\ D!Tick) \/ (n = 2 /\ D!Expire) \/ (n = 3 /\ D!Read)
                                \/ (n > 3 /\ D!Emit(n - 4))
      [] which = "slack"     -> \/ (n = 1 /\ S!Cancel) \/ (n \in 2..4 /\ S!Return(n - 1))
                                \/ (n > 4 /\ S!Unregister(n - 4))
      [] which = "mail"      -> n = 1 /\ M!Poll
      [] which = "gateway"   -> (n = 1 /\ G!Client) \/ (n = 2 /\ G!Accept) \/ (n = 3 /\ G!Replay)
      [] which = "polls"     -> (n = 1 /\ P!Poll) \/ (n \in 2..3 /\ P!Look(n - 1))
      [] which = "queue"     -> \/ (n \in 1..2 /\ Q!Reappear(n))
                                \/ (n = 3 /\ Q!Receive(Q!Visible)) \/ (n = 4 /\ Q!Work)
      [] which = "sync"      -> \/ (n = 1 /\ Y!FirstSync) \/ (n = 2 /\ Y!Sync(FALSE))
                                \/ (n = 3 /\ \E e \in 1..3 : Y!Emit(e))
      [] which = "following" -> \/ (n = 1 /\ U!Connect) \/ (n = 2 /\ U!Subscribe)
                                \/ (n = 3 /\ U!Notice) \/ (n = 4 /\ U!Read)
      [] which = "socket"    -> \/ (n = 1 /\ \E e \in K!Envelopes : K!Decide(e))
                                \/ (n = 2 /\ \E d \in deciding, heard \in BOOLEAN : K!Ack(d, heard))
                                \/ (n = 3 /\ \E w \in works : K!Emit(w))
running ==
    CASE which = "sweep" -> vars [] which = "debounce" -> debounce [] which = "slack" -> slack
      [] which = "mail" -> mail [] which = "gateway" -> gateway [] which = "polls" -> polls
      [] which = "queue" -> sqs [] which = "sync" -> matrix [] which = "following" -> following
      [] which = "socket" -> socket
MCFairness == \A n \in 1..7 : WF_running(UNCHANGED which /\ Task(n))

MCSpec == MCInit /\ [][SourcesNext]_all /\ MCFairness

\* The mail alone, and what its documentation says of it.
MailSpec == MCInit /\ which = "mail" /\ [][SourcesNext]_all
MailToldOnce == M!OnceAcrossRestarts

\* email, discord, matrix, the polls, aws-sqs, the subscriptions, slack's socket: what a source
\* should tell of it tells in the end, whatever fails on the way (each module's NothingLost,
\* ReplyArrives, RaisedIsTold, HeardIsTold, AckedIsEmitted, in the behaviours that are its own).
Due(n)  == CASE which = "mail"      -> M!Due(n)
             [] which = "gateway"   -> n <= 2 /\ G!Due(n)
             [] which = "sync"      -> Y!Due(n)
             [] which = "queue"     -> n <= 2 /\ Q!Due(n)
             [] which = "polls"     -> n <= 2
             [] which = "following" -> U!Due(n)
             [] which = "socket"    -> n = 1 /\ K!Due(n)
             [] OTHER -> FALSE
Done(n) == CASE which = "mail"      -> M!Done(n)
             [] which = "gateway"   -> n <= 2 /\ G!Done(n)
             [] which = "sync"      -> Y!Done(n)
             [] which = "queue"     -> n <= 2 /\ Q!Done(n)
             [] which = "polls"     -> n <= 2 /\ P!Done(n)
             [] which = "following" -> U!Done(n)
             [] which = "socket"    -> n = 1 /\ K!Done(n)
             [] OTHER -> FALSE
NothingLost == \A n \in 1..3 : Due(n) ~> Done(n)

\* fswatch settles, a stopped slack source ends, discord's connection and the subscriptions
\* come back (Settles, StoppedEnds, ComesBack, Returns).
Turns(n) == CASE which = "debounce"  -> D!Due(n)
              [] which = "slack"     -> S!Due(n)
              [] which = "gateway"   -> ~G!Live
              [] which = "following" -> TRUE
              [] OTHER -> FALSE
Ended(n) == CASE which = "debounce"  -> D!Done(n)
              [] which = "slack"     -> S!Done(n)
              [] which = "gateway"   -> G!Live
              [] which = "following" -> U!Follows
              [] OTHER -> FALSE
LoopsGoOn == \A n \in 1..3 : Turns(n) ~> Ended(n)
=============================================================================

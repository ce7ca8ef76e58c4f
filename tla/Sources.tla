-------------------------------- MODULE Sources --------------------------------
(* The sources that call out for what they tell: the sweep's cadence, a    *)
(* watch's debouncer, the slack plugin's instances and its socket, the     *)
(* IMAP poll, the discord gateway, the polls of a list, the queue of SQS,  *)
(* the matrix sync and the subscriptions.  They share nothing: a behaviour *)
(* runs one of them, and the variables of the others stay as they were.    *)
EXTENDS SweepCadence

CONSTANTS
    Window, MaxArms,                                    \* Debounce
    MaxStarts, NoOne,                                   \* SlackInstances
    Mails, IdOf(_), MailFailures, MailRestarts,         \* MailPoll
    MaxReplies, MaxOthers, MaxDrops,                    \* Gateway
    Things, Max, MaxTurns, PollFailures, PollRestarts,  \* Polls
    QueueMessages, MaxTold, MaxLost,                         \* Queue
    LastEvent, Limit, SyncFailures, SyncRestarts,       \* Sync
    LastMessage, StreamDrops, MaxAgain,                 \* Subscription
    Uses, MaxCopies, MaxClicks, MaxSubmits, SocketRestarts  \* SlackSocket

ASSUME DebounceAssumption == Window \in Nat /\ MaxArms \in Nat
ASSUME InstanceAssumption == MaxStarts \in Nat /\ NoOne \notin 1..MaxStarts
ASSUME MailAssumption == MailFailures \in Nat /\ MailRestarts \in Nat
ASSUME GatewayAssumption == MaxReplies \in Nat /\ MaxOthers \in Nat /\ MaxDrops \in Nat
ASSUME PollsAssumption == Max \in Nat /\ MaxTurns \in Nat /\ PollFailures \in Nat /\ PollRestarts \in Nat
ASSUME QueueAssumption == MaxTold \in Nat \ {0} /\ MaxLost \in Nat
ASSUME SyncAssumption == LastEvent \in Nat /\ SyncFailures \in Nat /\ SyncRestarts \in Nat
ASSUME SubscriptionAssumption == LastMessage \in Nat /\ StreamDrops \in Nat /\ MaxAgain \in Nat
ASSUME SocketAssumption ==
    MaxCopies \in Nat /\ MaxClicks \in Nat /\ MaxSubmits \in Nat /\ SocketRestarts \in Nat

VARIABLES
    which,
    armed, dTimer, age, expired, read, dEmitted, raced,
    sPc, cancelled, sources, stopping, latest, daemon, missedStop,
    marks, arrived, seen, dedup, mPc, mLeft, now, emits, elsewhere, mFailures, restarts,
    session, log, place, gConn, sessionID, seq, gEmitted, happened, gMissed, others, drops,
    source, state, turns, pLeft, list, accepted, pFailures, pRestarts,
    queue, autoDelete, batch, deleting, qTold, qLost,
    timeline, since, firstSync, ySeen, emitting, yTold, from, skipped, yFailures, yRestarts,
    follower, uConn, backoff, published, pipe, uSeen, uTold, uMissed, uDrops, agains,
    kind, pending, copies, deciding, works, kDedup, forms, buttons, clicks, modals, submits,
        kEmitted, acked, kLost, ran, signed, kRestarts

D == INSTANCE Debounce WITH timer <- dTimer, emitted <- dEmitted
S == INSTANCE SlackInstances WITH pc <- sPc, missed <- missedStop
M == INSTANCE MailPoll WITH MaxFailures <- MailFailures, MaxRestarts <- MailRestarts,
        pc <- mPc, left <- mLeft, failures <- mFailures
G == INSTANCE Gateway WITH conn <- gConn, emitted <- gEmitted, missed <- gMissed
P == INSTANCE Polls WITH MaxFailures <- PollFailures, MaxRestarts <- PollRestarts,
        left <- pLeft, failures <- pFailures, restarts <- pRestarts
Q == INSTANCE Queue WITH Messages <- QueueMessages, told <- qTold, lost <- qLost
Y == INSTANCE Sync WITH Last <- LastEvent, MaxFailures <- SyncFailures, MaxRestarts <- SyncRestarts,
        seen <- ySeen, told <- yTold, failures <- yFailures, restarts <- yRestarts
U == INSTANCE Subscription WITH Last <- LastMessage, MaxDrops <- StreamDrops, source <- follower,
        conn <- uConn, seen <- uSeen, told <- uTold, missed <- uMissed, drops <- uDrops
K == INSTANCE SlackSocket WITH MaxRestarts <- SocketRestarts,
        dedup <- kDedup, emitted <- kEmitted, lost <- kLost, restarts <- kRestarts

debounce == <<armed, dTimer, age, expired, read, dEmitted, raced>>
slack    == <<sPc, cancelled, sources, stopping, latest, daemon, missedStop>>
mail     == <<marks, arrived, seen, dedup, mPc, mLeft, now, emits, elsewhere, mFailures, restarts>>
gateway  == <<session, log, place, gConn, sessionID, seq, gEmitted, happened, gMissed, others, drops>>
polls    == <<source, state, turns, pLeft, list, accepted, pFailures, pRestarts>>
sqs      == <<queue, autoDelete, batch, deleting, qTold, qLost>>
matrix   == <<timeline, since, firstSync, ySeen, emitting, yTold, from, skipped, yFailures, yRestarts>>
following  == <<follower, uConn, backoff, published, pipe, uSeen, uTold, uMissed, uDrops, agains>>
socket   == <<kind, pending, copies, deciding, works, kDedup, forms, buttons, clicks, modals, submits,
              kEmitted, acked, kLost, ran, signed, kRestarts>>
all      == <<which, vars, debounce, slack, mail, gateway, polls, sqs, matrix, following, socket>>

Parts == {"sweep", "debounce", "slack", "mail", "gateway", "polls", "queue", "sync", "following", "socket"}

SourcesInit ==
    /\ which \in Parts
    /\ Init /\ D!Init /\ S!Init /\ M!Init /\ G!Init /\ P!Init /\ Q!Init /\ Y!Init /\ U!Init /\ K!Init

SourcesNext ==
    \/ /\ which = "sweep" /\ Next
       /\ UNCHANGED <<which, debounce, slack, mail, gateway, polls, sqs, matrix, following, socket>>
    \/ /\ which = "debounce" /\ D!Next
       /\ UNCHANGED <<which, vars, slack, mail, gateway, polls, sqs, matrix, following, socket>>
    \/ /\ which = "slack" /\ S!Next
       /\ UNCHANGED <<which, vars, debounce, mail, gateway, polls, sqs, matrix, following, socket>>
    \/ /\ which = "mail" /\ M!Next
       /\ UNCHANGED <<which, vars, debounce, slack, gateway, polls, sqs, matrix, following, socket>>
    \/ /\ which = "gateway" /\ G!Next
       /\ UNCHANGED <<which, vars, debounce, slack, mail, polls, sqs, matrix, following, socket>>
    \/ /\ which = "polls" /\ P!Next
       /\ UNCHANGED <<which, vars, debounce, slack, mail, gateway, sqs, matrix, following, socket>>
    \/ /\ which = "queue" /\ Q!Next
       /\ UNCHANGED <<which, vars, debounce, slack, mail, gateway, polls, matrix, following, socket>>
    \/ /\ which = "sync" /\ Y!Next
       /\ UNCHANGED <<which, vars, debounce, slack, mail, gateway, polls, sqs, following, socket>>
    \/ /\ which = "following" /\ U!Next
       /\ UNCHANGED <<which, vars, debounce, slack, mail, gateway, polls, sqs, matrix, socket>>
    \/ /\ which = "socket" /\ K!Next
       /\ UNCHANGED <<which, vars, debounce, slack, mail, gateway, polls, sqs, matrix, following>>

SourcesSpec == SourcesInit /\ [][SourcesNext]_all

-----------------------------------------------------------------------------
\* The types of all.
AllTyped == /\ TypeOK /\ D!TypeOK /\ S!TypeOK /\ M!TypeOK /\ G!TypeOK
            /\ P!TypeOK /\ Q!TypeOK /\ Y!TypeOK /\ U!TypeOK /\ K!TypeOK

\* fswatch: a change fires at most once, and only once the watch is quiet.
FiresOnceQuiet == D!FiresAtMostArms /\ D!FiresWhenQuiet

\* slack: a stop reaches whatever pumps, and one source pumps.
OneReached == S!StopReaches /\ S!OnePump

\* email, discord, the polls, ntfy and its like, slack's socket: what a source tells it
\* tells once, whatever is read, sent or brought again; email's, once in each life of its process.
EmittedOnce == /\ M!EmittedOnce /\ G!EmittedOnce /\ P!EmittedOnce /\ K!EmittedOnce
               /\ U!InOrder

\* fswatch, email, discord, matrix, the subscriptions, slack's socket: what is not told yet is
\* in reach of the source, whatever was skipped as told, failed, ended or restarted.
NothingPassedOver == /\ D!LastInReach /\ M!StillUnseen /\ G!StillInLog /\ Y!TokenCovers
                     /\ U!AllAccounted /\ K!AckedIsWorkedOn

\* aws-sqs tells a message before it deletes it, matrix an event at most once, and neither of
\* them what was not sent.
IsFeed == Q!IsFeed /\ Y!IsFeed /\ []Q!DeletedWasTold
=============================================================================

--------------------------- MODULE SourcesKept_proofs ---------------------------
(***************************************************************************)
(* That the sources pass over nothing (fswatch, email, discord, matrix,    *)
(* the subscriptions, slack's socket): what is not told yet is in reach.   *)
(* This is what their liveness rests on, the part of it that needs no      *)
(* fairness; that it is then told is left to TLC.                          *)
(***************************************************************************)
EXTENDS SourcesOnce_proofs

-----------------------------------------------------------------------------
(* Debounce. *)

\* What is taken out of a sequence is the one element.
LEMMA WithoutKeeps ==
    ASSUME NEW X, NEW s \in Seq(X), NEW i \in DOMAIN s, NEW k \in DOMAIN s, k # i
    PROVE  \E j \in DOMAIN D!Without(s, i) : D!Without(s, i)[j] = s[k]
<1>1. Len(s) \in Nat /\ i \in 1..Len(s) /\ k \in 1..Len(s) /\ DOMAIN D!Without(s, i) = 1..(Len(s) - 1)
  BY DEF D!Without
<1>2. CASE k < i
  <2>1. k \in 1..(Len(s) - 1)
    BY <1>1, <1>2
  <2> QED BY <1>1, <1>2, <2>1 DEF D!Without
<1>3. CASE k > i
  <2>1. k - 1 \in 1..(Len(s) - 1) /\ ~(k - 1 < i) /\ (k - 1) + 1 = k
    BY <1>1, <1>3
  <2> QED BY <1>1, <2>1 DEF D!Without
<1> QED BY <1>1, <1>2, <1>3

LEMMA StepReach == ASSUME D!TypeOK, D!LastInReach, D!Next \/ UNCHANGED D!vars PROVE D!LastInReach'
<1> USE DebounceAssumption DEF D!TypeOK, D!Unset, D!Changes
<1>1. CASE D!Arm
  BY <1>1 DEF D!Arm, D!LastInReach
<1>2. CASE D!Tick
  BY <1>2 DEF D!Tick, D!LastInReach
<1>3. CASE D!Expire
  BY <1>3 DEF D!Expire, D!LastInReach
<1>4. CASE D!Read
  <2>1. armed' = armed /\ read' = Append(read, armed)
    BY <1>4 DEF D!Read
  <2>2. Len(read) + 1 \in DOMAIN read' /\ read'[Len(read) + 1] = armed'
    BY <2>1
  <2> QED BY <2>2 DEF D!LastInReach
<1>5. ASSUME NEW n \in D!Changes, D!Emit(n) PROVE D!LastInReach'
  <2>1. PICK i \in DOMAIN read : read[i] = n /\ read' = D!Without(read, i)
    BY <1>5 DEF D!Emit
  <2>2. dEmitted' = Append(dEmitted, n) /\ UNCHANGED <<armed, dTimer, expired>>
    BY <1>5 DEF D!Emit
  <2>3. /\ Len(dEmitted) + 1 \in DOMAIN dEmitted' /\ dEmitted'[Len(dEmitted) + 1] = n
        /\ \A k \in DOMAIN dEmitted : k \in DOMAIN dEmitted' /\ dEmitted'[k] = dEmitted[k]
    BY <2>2
  <2>4. ASSUME NEW k \in DOMAIN read, read[k] = armed
        PROVE  \/ \E j \in DOMAIN read' : read'[j] = armed
               \/ \E j \in DOMAIN dEmitted' : dEmitted'[j] = armed
    <3>1. CASE k = i
      BY <2>1, <2>3, <2>4, <3>1
    <3>2. CASE k # i
      BY <2>1, <2>4, <3>2, WithoutKeeps
    <3> QED BY <3>1, <3>2
  <2> QED BY <2>2, <2>3, <2>4 DEF D!LastInReach
<1>6. CASE UNCHANGED D!vars
  BY <1>6 DEF D!vars, D!LastInReach
<1> QED BY <1>1, <1>2, <1>3, <1>4, <1>5, <1>6 DEF D!Next

-----------------------------------------------------------------------------
(* MailPoll. *)

\* What is read was told of, or read by somebody; what counts as handled was told of, or is
\* about to be.
MailKept ==
    /\ \A m \in seen : m \in elsewhere \/ emits[IdOf(m)] > 0
    /\ \A i \in dedup : emits[i] > 0 \/ (mPc = "emit" /\ \E n \in now : IdOf(n) = i)
    /\ mPc = "mark" => \A m \in now : emits[IdOf(m)] > 0

LEMMA MailKeptUnseen == ASSUME M!TypeOK, MailKept PROVE M!StillUnseen
<1>1. \A m \in Mails : IdOf(m) \in M!Ids /\ emits[IdOf(m)] \in Nat
  BY DEF M!Ids, M!TypeOK
<1> QED BY <1>1 DEF MailKept, M!StillUnseen, M!TypeOK

LEMMA StepMailKept == ASSUME M!TypeOK, MailKept, M!Next \/ UNCHANGED M!vars PROVE MailKept'
<1> USE DEF M!TypeOK, MailKept
<1>0. \A m \in Mails : IdOf(m) \in M!Ids
  BY DEF M!Ids
<1>1. ASSUME NEW m \in Mails, M!Arrive(m) \/ M!ReadElsewhere(m) PROVE MailKept'
  BY <1>1 DEF M!Arrive, M!ReadElsewhere, M!poll
<1>2. CASE M!Connect \/ M!Search \/ M!Sleep
  BY <1>2 DEF M!Connect, M!Search, M!Sleep, M!mailbox
<1>3. CASE M!Fail
  BY <1>3 DEF M!Fail, M!mailbox
<1>4. ASSUME NEW m \in Mails, M!Fetch(m) PROVE MailKept'
  BY <1>4 DEF M!Fetch, M!mailbox
<1>5. CASE M!Emit
  <2>1. \A i \in M!Ids : emits'[i] = IF \E m \in now : IdOf(m) = i THEN emits[i] + 1 ELSE emits[i]
    BY <1>5 DEF M!Emit
  <2>2. \A i \in M!Ids : /\ emits[i] > 0 => emits'[i] > 0
                         /\ (\E m \in now : IdOf(m) = i) => emits'[i] > 0
    BY <2>1
  <2>3. mPc = "emit" /\ now' \subseteq now /\ UNCHANGED <<M!mailbox, dedup>>
    BY <1>5 DEF M!Emit
  <2> QED BY <1>0, <2>2, <2>3 DEF M!mailbox
<1>6. CASE M!MarkSeen
  BY <1>6 DEF M!MarkSeen
<1>7. CASE M!Restart
  BY <1>7 DEF M!Restart, M!mailbox
<1>8. CASE UNCHANGED M!vars
  BY <1>8 DEF M!vars, M!mailbox, M!poll
<1> QED BY <1>1, <1>2, <1>3, <1>4, <1>5, <1>6, <1>7, <1>8 DEF M!Next, M!Poll

-----------------------------------------------------------------------------
(* Gateway. *)

\* The client knows the session that it was told of, for as long as the gateway keeps it.
Knows ==
    /\ session.kept => session.id # 0
    /\ session.kept /\ session.told => sessionID = session.id
GatewayKept == Knows /\ G!StillInLog

LEMMA StepGatewayKept ==
    ASSUME GatewayInv, GatewayKept, G!Next \/ UNCHANGED G!vars PROVE GatewayKept'
<1> USE GatewayAssumption DEF G!gateway, G!client
<1>t. G!TypeOK /\ Resumes /\ Knows /\ G!StillInLog
  BY DEF GatewayInv, GatewayKept
<1>l. log \in Seq(G!Replies \cup {G!Other}) /\ Len(log) \in Nat /\ DOMAIN log = 1..Len(log) /\ seq \in 0..Len(log)
  BY <1>t DEF G!TypeOK
\* Where the log grows, and where there is nothing still to tell.
<1>g. ASSUME NEW x \in G!Replies \cup {G!Other}, log' = Append(log, x),
             UNCHANGED <<session, sessionID, seq, gEmitted>>,
             \A n \in happened' \ gMissed' : n \in happened \ gMissed \/ (n = x /\ session.kept)
      PROVE  GatewayKept'
  <2>1. /\ \A i \in DOMAIN log : i \in DOMAIN log' /\ log'[i] = log[i]
        /\ Len(log) + 1 \in DOMAIN log' /\ log'[Len(log) + 1] = x /\ Len(log) + 1 > seq
    BY <1>l, <1>g, Appended
  <2> QED BY <1>t, <1>g, <2>1 DEF GatewayKept, Knows, G!StillInLog
<1>n. ASSUME Knows', \A n \in happened' \ gMissed' : gEmitted'[n] # 0 PROVE GatewayKept'
  BY <1>n DEF GatewayKept, G!StillInLog
<1>1. ASSUME NEW n \in G!Replies, G!Reply(n) PROVE GatewayKept'
  <2>1. CASE session.kept
    BY <1>1, <1>g, <2>1 DEF G!Reply
  <2>2. CASE ~session.kept
    BY <1>1, <1>t, <2>2 DEF G!Reply, GatewayKept, Knows, G!StillInLog
  <2> QED BY <2>1, <2>2
<1>2. CASE G!Chatter
  BY <1>2, <1>g DEF G!Chatter
<1>u. \A n \in happened \ (gMissed \cup G!Unheard) : gEmitted[n] # 0
  BY <1>t DEF G!StillInLog, G!Unheard, G!TypeOK
<1>3. CASE G!Expire
  <2>1. session' = [session EXCEPT !.kept = FALSE] /\ gMissed' = gMissed \cup G!Unheard
        /\ UNCHANGED <<sessionID, gEmitted, happened>>
    BY <1>3 DEF G!Expire
  <2>2. ~session'.kept
    BY <1>t, <2>1 DEF G!TypeOK
  <2> QED BY <1>n, <1>u, <2>1, <2>2 DEF Knows
<1>4. CASE G!Accept
  <2>1. gConn = "identify" /\ session' = [id |-> session.id + 1, kept |-> TRUE, told |-> FALSE]
        /\ gMissed' = (IF session.told THEN gMissed ELSE gMissed \cup G!Unheard)
        /\ UNCHANGED <<gEmitted, happened>>
    BY <1>4 DEF G!Accept
  <2>2. Knows'
    BY <1>t, <2>1 DEF Knows, G!TypeOK
  <2>3. session.told => ~session.kept
    BY <1>t, <2>1 DEF Resumes, Knows
  <2> QED BY <1>n, <1>t, <1>u, <2>1, <2>2, <2>3 DEF G!StillInLog
<1>5. CASE G!Replay \/ G!Connect \/ G!Hello \/ G!Drop
  BY <1>t, <1>5 DEF G!Replay, G!Connect, G!Hello, G!Drop, GatewayKept, Knows, G!StillInLog
<1>6. CASE G!InvalidSession
  <2>1. ~session.kept
    BY <1>t, <1>6 DEF G!InvalidSession, G!GivenUp, Resumes
  <2> QED BY <1>t, <1>6, <2>1 DEF G!InvalidSession, GatewayKept, Knows, G!StillInLog
<1>7. CASE G!Dispatch
  <2> DEFINE n == log[place + 1]
  <2>1. /\ gConn = "live" /\ place < Len(log) /\ seq' = place + 1
        /\ session' = [session EXCEPT !.told = TRUE]
        /\ sessionID' = IF place = 0 THEN session.id ELSE sessionID
        /\ gEmitted' = IF n = G!Other THEN gEmitted ELSE [gEmitted EXCEPT ![n] = @ + 1]
        /\ UNCHANGED <<log, happened, gMissed>>
    BY <1>7 DEF G!Dispatch
  <2>2. place \in Nat /\ place = seq /\ n \in G!Replies \cup {G!Other}
    BY <1>t, <1>l, <2>1 DEF G!TypeOK, Resumes
  <2>3. session'.id = session.id /\ session'.kept = session.kept /\ sessionID' = session.id
    BY <1>t, <2>1, <2>2 DEF G!TypeOK, Resumes
  <2>4. Knows'
    BY <1>t, <2>3 DEF Knows
  <2> SUFFICES ASSUME NEW k \in happened \ gMissed, gEmitted'[k] = 0
               PROVE  session.kept /\ \E i \in DOMAIN log : log[i] = k /\ i > seq'
    BY <2>1, <2>3, <2>4 DEF GatewayKept, G!StillInLog
  <2>5. k \in G!Replies /\ gEmitted[k] \in Nat /\ k # G!Other
    BY <1>t DEF G!TypeOK, G!Replies, G!Other
  <2>6. k # n /\ gEmitted[k] = 0
    BY <1>t, <2>1, <2>2, <2>5 DEF G!TypeOK
  <2>7. PICK i \in DOMAIN log : log[i] = k /\ i > seq
    BY <1>t, <2>6 DEF G!StillInLog
  <2>8. i # place + 1
    BY <2>6, <2>7
  <2> QED BY <1>l, <1>t, <2>1, <2>2, <2>6, <2>7, <2>8 DEF G!StillInLog
<1>8. CASE UNCHANGED G!vars
  BY <1>t, <1>8 DEF G!vars, GatewayKept, Knows, G!StillInLog
<1> QED BY <1>1, <1>2, <1>3, <1>4, <1>5, <1>6, <1>7, <1>8 DEF G!Next, G!Client

-----------------------------------------------------------------------------
(* Sync. *)

\* What the process remembers it tells.
SeenTold == \A n \in ySeen : yTold[n] > 0 \/ n \in emitting
SyncKept == SeenTold /\ Y!TokenCovers

LEMMA StepSyncKept == ASSUME SyncInv, SyncKept, Y!Next \/ UNCHANGED Y!vars PROVE SyncKept'
<1> USE SyncAssumption
<1>t. Y!TypeOK /\ Followed /\ SeenTold /\ Y!TokenCovers
  BY DEF SyncInv, SyncKept
<1>n. Y!Now \in Nat /\ from \in Nat /\ since \in Nat /\ \A n \in Y!Places : yTold[n] \in Nat
  BY <1>t DEF Y!TypeOK, Y!Now
<1>1. ASSUME NEW k \in Y!Kinds, Y!Happen(k) PROVE SyncKept'
  <2>1. timeline' = Append(timeline, k)
        /\ UNCHANGED <<since, firstSync, ySeen, emitting, yTold, from, skipped>>
    BY <1>1 DEF Y!Happen
  <2>2. Y!Now' = Y!Now + 1 /\ \A n \in 1..Y!Now : timeline'[n] = timeline[n]
    BY <1>t, <2>1 DEF Y!TypeOK, Y!Now
  <2>3. ASSUME ~firstSync, NEW n \in Y!Joined(from)', n <= since PROVE n \in Y!Joined(from)
    <3>1. n \in (from + 1)..Y!Now' /\ timeline'[n] # "invited"
      BY <2>1, <2>3 DEF Y!Joined
    <3>2. n \in (from + 1)..Y!Now /\ n \in 1..Y!Now
      BY <1>n, <1>t, <2>2, <2>3, <3>1 DEF Followed
    <3> QED BY <2>2, <3>1, <3>2 DEF Y!Joined
  <2> QED BY <1>t, <2>1, <2>3 DEF SyncKept, SeenTold, Y!TokenCovers
<1>2. CASE Y!FirstSync
  <2>1. since' = Y!Now /\ from' = Y!Now /\ Y!Now' = Y!Now /\ UNCHANGED <<ySeen, emitting, yTold>>
    BY <1>2 DEF Y!FirstSync, Y!Now
  <2>2. Y!TokenCovers'
    BY <1>n, <2>1 DEF Y!TokenCovers, Y!Joined
  <2> QED BY <1>t, <2>1, <2>2 DEF SyncKept, SeenTold
<1>3. CASE Y!SyncFails \/ UNCHANGED Y!vars
  <2>1. UNCHANGED <<timeline, since, firstSync, ySeen, emitting, yTold, from, skipped>>
    BY <1>3 DEF Y!SyncFails, Y!vars
  <2> QED BY <1>t, <2>1 DEF SyncKept, SeenTold, Y!TokenCovers, Y!Joined, Y!Now
<1>4. CASE Y!Restart
  BY <1>4 DEF Y!Restart, SyncKept, SeenTold, Y!TokenCovers
<1>5. ASSUME NEW again \in BOOLEAN, Y!Sync(again) PROVE SyncKept'
  <2> DEFINE got == Y!Answered(IF again THEN since - 1 ELSE since)
  <2>1. /\ emitting = {} /\ ~firstSync /\ since' = Y!Now
        /\ emitting' = got \ ySeen /\ ySeen' = ySeen \cup got
        /\ skipped' = skipped \cup (Y!Joined(since) \ got)
        /\ UNCHANGED <<timeline, firstSync, yTold, from>>
    BY <1>5 DEF Y!Sync
  <2>2. Y!Joined(from)' = Y!Joined(from)
    BY <2>1 DEF Y!Joined, Y!Now
  <2> HIDE DEF got
  <2>3. SeenTold'
    BY <1>t, <2>1 DEF SeenTold
  <2>4. ASSUME NEW n \in Y!Joined(from) PROVE yTold[n] > 0 \/ n \in emitting' \cup skipped'
    <3>1. n \in (from + 1)..Y!Now /\ timeline[n] # "invited"
      BY <2>4 DEF Y!Joined
    <3>2. CASE n <= since
      BY <1>t, <2>1, <2>4, <3>2 DEF Y!TokenCovers
    <3>3. CASE ~(n <= since)
      <4>1. n \in Y!Joined(since)
        BY <1>n, <3>1, <3>3 DEF Y!Joined
      <4>2. CASE n \in got
        BY <1>t, <2>1, <4>2 DEF SeenTold
      <4>3. CASE n \notin got
        BY <2>1, <4>1, <4>3
      <4> QED BY <4>2, <4>3
    <3> QED BY <3>2, <3>3
  <2> QED BY <2>1, <2>2, <2>3, <2>4 DEF SyncKept, Y!TokenCovers
<1>6. ASSUME NEW n \in Y!Places, Y!Emit(n) PROVE SyncKept'
  <2>1. /\ n \in emitting /\ emitting' = emitting \ {n}
        /\ yTold' = [yTold EXCEPT ![n] = IF @ < 2 THEN @ + 1 ELSE @]
        /\ UNCHANGED <<timeline, since, firstSync, ySeen, from, skipped>>
    BY <1>6 DEF Y!Emit
  <2>2. yTold'[n] > 0 /\ \A m \in Y!Places : m # n => yTold'[m] = yTold[m]
    BY <1>t, <1>n, <2>1 DEF Y!TypeOK
  <2>3. Y!Joined(from)' = Y!Joined(from) /\ Y!Joined(from) \subseteq Y!Places
    <3>1. Y!Joined(from)' = Y!Joined(from)
      BY <2>1 DEF Y!Joined, Y!Now
    <3> QED BY <1>t, <1>n, <3>1, AnsweredIsLater
  <2>4. ySeen \subseteq Y!Places
    BY <1>t DEF Y!TypeOK
  <2> QED BY <1>t, <2>1, <2>2, <2>3, <2>4 DEF SyncKept, SeenTold, Y!TokenCovers
<1> QED BY <1>1, <1>2, <1>3, <1>4, <1>5, <1>6 DEF Y!Next

-----------------------------------------------------------------------------
(* Subscription. *)

\* Nothing is on its way to one that does not follow; what a source that deduplicates
\* remembers it has told.
FollowKept ==
    /\ uConn # "following" => pipe = <<>>
    /\ follower.dedups => uSeen \subseteq U!Elements(uTold)
    /\ U!AllAccounted

LEMMA AppendedElements ==
    ASSUME NEW X, NEW s \in Seq(X), NEW e \in X
    PROVE  U!Elements(Append(s, e)) = U!Elements(s) \cup {e}
<1>1. U!Elements(Append(s, e)) \subseteq U!Elements(s) \cup {e}
  BY Appended DEF U!Elements
<1>2. U!Elements(s) \subseteq U!Elements(Append(s, e))
  BY Appended DEF U!Elements
<1>3. Len(s) + 1 \in DOMAIN Append(s, e) /\ Append(s, e)[Len(s) + 1] = e
  OBVIOUS
<1> QED BY <1>1, <1>2, <1>3 DEF U!Elements

LEMMA HeadAndTail ==
    ASSUME NEW X, NEW s \in Seq(X), s # <<>>
    PROVE  U!Elements(s) = {Head(s)} \cup U!Elements(Tail(s)) /\ Head(s) \in X
<1>1. Len(s) \in Nat /\ 1 \in DOMAIN s /\ Head(s) = s[1] /\ DOMAIN s = 1..Len(s) /\ DOMAIN Tail(s) = 1..(Len(s) - 1)
  OBVIOUS
<1>2. \A i \in DOMAIN Tail(s) : i + 1 \in DOMAIN s /\ Tail(s)[i] = s[i + 1]
  OBVIOUS
<1>3. \A i \in DOMAIN s : i # 1 => i - 1 \in DOMAIN Tail(s) /\ (i - 1) + 1 = i
  BY <1>1
<1>4. Head(s) \in X
  BY <1>1
<1>5. U!Elements(s) \subseteq {Head(s)} \cup U!Elements(Tail(s))
  BY <1>1, <1>2, <1>3 DEF U!Elements
<1>6. {Head(s)} \cup U!Elements(Tail(s)) \subseteq U!Elements(s)
  BY <1>1, <1>2 DEF U!Elements
<1> QED BY <1>4, <1>5, <1>6

LEMMA StepFollowKept ==
    ASSUME U!TypeOK, FollowKept, U!Next \/ UNCHANGED U!vars PROVE FollowKept'
<1> USE SubscriptionAssumption
<1>p. pipe \in Seq(U!Messages) /\ uTold \in Seq(U!Messages) /\ published \in Nat /\ published <= LastMessage
  BY DEF U!TypeOK
<1>k. /\ uConn # "following" => pipe = <<>>
      /\ follower.dedups => uSeen \subseteq U!Elements(uTold)
      /\ \A m \in U!Messages : m <= published => m \in U!Elements(uTold) \cup U!Elements(pipe) \cup uMissed
  BY DEF FollowKept, U!AllAccounted
<1>e. U!Elements(<<>>) = {}
  BY DEF U!Elements
<1>1. CASE U!Publish
  <2>1. published' = published + 1 /\ published < LastMessage
        /\ UNCHANGED <<follower, uConn, uSeen, uTold>>
        /\ \/ uConn = "following" /\ pipe' = Append(pipe, published + 1) /\ uMissed' = uMissed
           \/ uConn # "following" /\ pipe' = pipe /\ uMissed' = uMissed \cup {published + 1}
    BY <1>1 DEF U!Publish
  <2>2. published + 1 \in U!Messages
    BY <1>p, <2>1 DEF U!Messages
  <2>3. \A m \in U!Messages : m <= published' => m <= published \/ m = published + 1
    BY <1>p, <2>1 DEF U!Messages
  <2>4. U!Elements(pipe) \cup uMissed \cup {published + 1} \subseteq U!Elements(pipe') \cup uMissed'
    <3>1. U!Elements(Append(pipe, published + 1)) = U!Elements(pipe) \cup {published + 1}
      BY <1>p, <2>2, AppendedElements
    <3> QED BY <2>1, <3>1
  <2> QED BY <1>k, <2>1, <2>3, <2>4 DEF FollowKept, U!AllAccounted
<1>2. CASE U!Subscribe
  <2>1. uConn = "up" /\ uConn' = "following" /\ uMissed' = uMissed \ U!Elements(pipe')
        /\ UNCHANGED <<follower, published, uSeen, uTold>>
    BY <1>2 DEF U!Subscribe
  <2> QED BY <1>k, <1>e, <2>1 DEF FollowKept, U!AllAccounted
<1>3. ASSUME NEW to \in {"down", "silent"}, U!Lose(to), UNCHANGED <<follower, published, uSeen, uTold>>
      PROVE  FollowKept'
  <2>1. uConn' # "following" /\ pipe' = <<>> /\ uMissed' = uMissed \cup (U!Elements(pipe) \ U!Elements(uTold))
    BY <1>3 DEF U!Lose
  <2> QED BY <1>k, <1>3, <2>1 DEF FollowKept, U!AllAccounted
<1>4. CASE U!Drop \/ U!Vanish
  BY <1>3, <1>4 DEF U!Drop, U!Vanish
<1>5. CASE U!Connect \/ U!Refuse \/ U!Notice
  BY <1>k, <1>5 DEF U!Connect, U!Refuse, U!Notice, FollowKept, U!AllAccounted
<1>6. CASE U!Again
  <2>1. uConn = "following" /\ UNCHANGED <<follower, uConn, published, uSeen, uTold, uMissed>>
    BY <1>6 DEF U!Again
  <2>2. PICK m \in U!Elements(uTold) : pipe' = Append(pipe, m)
    BY <1>6 DEF U!Again
  <2>3. m \in U!Messages
    BY <1>p, ElementsOf
  <2>4. U!Elements(pipe') = U!Elements(pipe) \cup {m}
    BY <1>p, <2>2, <2>3, AppendedElements
  <2> QED BY <1>k, <2>1, <2>4 DEF FollowKept, U!AllAccounted
<1>7. CASE U!Read
  <2>1. uConn = "following" /\ pipe # <<>> /\ pipe' = Tail(pipe)
        /\ UNCHANGED <<follower, uConn, published, uMissed>>
    BY <1>7 DEF U!Read
  <2>2. U!Elements(pipe) = {Head(pipe)} \cup U!Elements(pipe') /\ Head(pipe) \in U!Messages
    BY <1>p, <2>1, HeadAndTail
  <2>3. CASE follower.dedups /\ Head(pipe) \in uSeen
    <3>1. UNCHANGED <<uSeen, uTold>>
      BY <1>7, <2>3 DEF U!Read
    <3> QED BY <1>k, <2>1, <2>2, <2>3, <3>1 DEF FollowKept, U!AllAccounted
  <2>4. CASE ~(follower.dedups /\ Head(pipe) \in uSeen)
    <3>1. uTold' = Append(uTold, Head(pipe)) /\ uSeen' = IF follower.dedups THEN uSeen \cup {Head(pipe)} ELSE uSeen
      BY <1>7, <2>4 DEF U!Read
    <3>2. U!Elements(uTold') = U!Elements(uTold) \cup {Head(pipe)}
      BY <1>p, <2>2, <3>1, AppendedElements
    <3> QED BY <1>k, <2>1, <2>2, <3>1, <3>2 DEF FollowKept, U!AllAccounted
  <2> QED BY <2>3, <2>4
<1>8. CASE UNCHANGED U!vars
  BY <1>k, <1>8 DEF U!vars, FollowKept, U!AllAccounted
<1> QED BY <1>1, <1>2, <1>4, <1>5, <1>6, <1>7, <1>8 DEF U!Next

-----------------------------------------------------------------------------
(* SlackSocket. *)

\* A use has an event under way, or its event was signed.
UnderWay(u) == K!Signature(u) \in signed \/ \E w \in works : w.do = "emit" /\ w.of.use = u
\* What is remembered is under way, or is being decided; the read loop is about one envelope,
\* which is remembered if it fires.
Remembered ==
    /\ \A c, d \in deciding : c = d
    /\ \A d \in deciding : K!Fires(d.e) => d.e \in kDedup
    /\ \A e \in kDedup : K!Fires(e) =>
          UnderWay(e.use) \/ \E d \in deciding : d.e = e /\ d.new
SocketKept == Remembered /\ K!AckedIsWorkedOn

\* Where no event is taken from those under way.
LEMMA StaysUnderWay ==
    ASSUME kind' = kind, signed \subseteq signed',
           \A w \in works : w.do = "emit" => w \in works' \/ K!Signature(w.of.use) \in signed'
    PROVE  \A u : UnderWay(u) => UnderWay(u)'
<1>1. \A u : K!Signature(u)' = K!Signature(u)
  BY DEF K!Signature
<1> QED BY <1>1 DEF UnderWay

\* Steps that decide nothing and acknowledge nothing.
LEMMA AsideKept ==
    ASSUME SocketKept, UNCHANGED <<kind, deciding, kDedup, acked, kLost>>,
           \A u : UnderWay(u) => UnderWay(u)'
    PROVE  SocketKept'
<1>1. \A e : K!Fires(e)' <=> K!Fires(e)
  BY DEF K!Fires
<1>2. Remembered'
  BY <1>1 DEF SocketKept, Remembered
<1>3. K!AckedIsWorkedOn'
  BY DEF SocketKept, K!AckedIsWorkedOn, UnderWay
<1> QED BY <1>2, <1>3 DEF SocketKept

LEMMA StepSocketKept ==
    ASSUME K!TypeOK, SocketKept, K!Next \/ UNCHANGED K!vars PROVE SocketKept'
<1>1. ASSUME NEW u \in Uses, K!Use(u) \/ K!Click(u) \/ K!Submit(u, "good") \/ K!Submit(u, "bad") \/ K!Expire(u)
      PROVE  SocketKept'
  <2>1. UNCHANGED <<kind, deciding, kDedup, works, acked, kLost, signed>>
    BY <1>1 DEF K!Use, K!Click, K!Submit, K!Expire, K!socket, K!people, K!engine
  <2> QED BY <2>1, StaysUnderWay, AsideKept
<1>2. ASSUME NEW e \in K!Envelopes, K!GiveUp(e) PROVE SocketKept'
  <2>1. UNCHANGED <<kind, deciding, kDedup, works, acked, kLost, signed>>
    BY <1>2 DEF K!GiveUp, K!socket, K!people, K!engine
  <2> QED BY <2>1, StaysUnderWay, AsideKept
<1>3. ASSUME NEW e \in K!Envelopes, K!Decide(e) PROVE SocketKept'
  <2> DEFINE new == K!Keyed(e) => e \notin kDedup
             d == [e |-> e, new |-> new]
  <2>1. /\ deciding = {} /\ deciding' = {d} /\ kDedup' = IF K!Keyed(e) THEN kDedup \cup {e} ELSE kDedup
        /\ UNCHANGED <<kind, works, signed, acked, kLost>>
    BY <1>3 DEF K!Decide, K!people, K!engine
  <2>2. d.e = e /\ d.new = new
    OBVIOUS
  <2>3. \A x : K!Fires(x)' <=> K!Fires(x)
    BY <2>1 DEF K!Fires
  <2>4. \A u : UnderWay(u) => UnderWay(u)'
    BY <2>1, StaysUnderWay
  <2>5. K!Fires(e) => K!Keyed(e)
    BY DEF K!Keyed
  <2> HIDE DEF d
  <2>6. Remembered'
    <3>1. (\A b, c \in deciding' : b = c) /\ (\A c \in deciding' : K!Fires(c.e)' => c.e \in kDedup')
      BY <2>1, <2>2, <2>3, <2>5
    <3>2. ASSUME NEW x \in kDedup', K!Fires(x) PROVE UnderWay(x.use)' \/ \E c \in deciding' : c.e = x /\ c.new
      <4>1. CASE x \in kDedup
        BY <2>1, <2>4, <3>2, <4>1 DEF SocketKept, Remembered
      <4>2. CASE x \notin kDedup
        BY <2>1, <2>2, <3>2, <4>2
      <4> QED BY <4>1, <4>2
    <3> QED BY <2>3, <3>1, <3>2 DEF Remembered
  <2>7. K!AckedIsWorkedOn'
    BY <2>1, <2>4 DEF SocketKept, K!AckedIsWorkedOn, UnderWay
  <2> QED BY <2>6, <2>7 DEF SocketKept
<1>4. ASSUME NEW d \in deciding, NEW heard \in BOOLEAN, K!Ack(d, heard) PROVE SocketKept'
  <2> DEFINE e == d.e
  <2>1. /\ deciding' = {} /\ works' = (IF d.new THEN works \cup K!Work(e) ELSE works)
        /\ acked' \subseteq acked \cup (IF K!Fires(e) THEN {e.use} ELSE {})
        /\ UNCHANGED <<kind, kDedup, kLost, signed>>
    BY <1>4 DEF K!Ack, K!engine
  <2>2. d.new \in BOOLEAN /\ \A c \in deciding : c = d
    BY DEF K!TypeOK, SocketKept, Remembered
  <2> HIDE DEF e
  <2>3. \A x : K!Fires(x)' <=> K!Fires(x)
    BY <2>1 DEF K!Fires
  <2>4. \A u : UnderWay(u) => UnderWay(u)'
    BY <2>1, StaysUnderWay
  <2>5. K!Fires(e) /\ d.new => UnderWay(e.use)'
    <3> SUFFICES ASSUME K!Fires(e), d.new PROVE UnderWay(e.use)'
      OBVIOUS
    <3>1. [do |-> "emit", of |-> e] \in works'
      BY <2>1 DEF K!Work
    <3>2. [do |-> "emit", of |-> e].do = "emit" /\ [do |-> "emit", of |-> e].of.use = e.use
      OBVIOUS
    <3> QED BY <3>1, <3>2 DEF UnderWay
  <2>6. K!Fires(e) => UnderWay(e.use)'
    <3>1. K!Fires(e) => e \in kDedup
      BY DEF SocketKept, Remembered, e
    <3>2. K!Fires(e) /\ ~d.new => UnderWay(e.use)
      BY <2>2, <3>1 DEF SocketKept, Remembered
    <3> QED BY <2>2, <2>4, <2>5, <3>2
  <2>7. Remembered'
    <3>1. ASSUME NEW x \in kDedup, K!Fires(x) PROVE UnderWay(x.use)'
      <4>1. UnderWay(x.use) \/ x = e
        BY <2>2, <3>1 DEF SocketKept, Remembered, e
      <4> QED BY <2>4, <2>6, <3>1, <4>1
    <3> QED BY <2>1, <2>3, <3>1 DEF Remembered
  <2>8. K!AckedIsWorkedOn'
    <3>1. \A u \in acked \ kLost : UnderWay(u)
      BY DEF SocketKept, K!AckedIsWorkedOn, UnderWay
    <3>2. \A u \in acked' \ kLost' : UnderWay(u)'
      BY <2>1, <2>4, <2>6, <3>1
    <3> QED BY <3>2 DEF K!AckedIsWorkedOn, UnderWay
  <2> QED BY <2>7, <2>8 DEF SocketKept
<1>5. ASSUME NEW w \in works, K!Emit(w) PROVE SocketKept'
  <2>1. works' = works \ {w} /\ signed' = signed \cup {K!Signature(w.of.use)}
        /\ UNCHANGED <<kind, deciding, kDedup, acked, kLost>>
    BY <1>5 DEF K!Emit, K!people
  <2> QED BY <2>1, StaysUnderWay, AsideKept
<1>6. ASSUME NEW w \in works, NEW ok \in BOOLEAN, K!Offer(w, ok) \/ K!Open(w, ok) PROVE SocketKept'
  <2>1. w.do # "emit" /\ works' = works \ {w} /\ UNCHANGED <<kind, deciding, kDedup, acked, kLost, signed>>
    BY <1>6 DEF K!Offer, K!Open, K!engine
  <2> QED BY <2>1, StaysUnderWay, AsideKept
<1>7. CASE K!Restart
  <2>1. /\ deciding' = {} /\ works' = {} /\ kDedup' = {} /\ kLost' = kLost \cup {w.of.use : w \in works}
        /\ UNCHANGED <<kind, acked, signed>>
    BY <1>7 DEF K!Restart, K!people, K!engine
  <2>2. \A u : K!Signature(u)' = K!Signature(u)
    BY <2>1 DEF K!Signature
  <2> QED BY <2>1, <2>2 DEF SocketKept, Remembered, K!AckedIsWorkedOn
<1>8. CASE UNCHANGED K!vars
  <2>1. UNCHANGED <<kind, deciding, kDedup, works, acked, kLost, signed>>
    BY <1>8 DEF K!vars, K!socket, K!people, K!engine
  <2> QED BY <2>1, StaysUnderWay, AsideKept
<1> QED BY <1>1, <1>2, <1>3, <1>4, <1>5, <1>6, <1>7, <1>8 DEF K!Next

-----------------------------------------------------------------------------
(* What each keeps, a behaviour of all keeps. *)

Kept == D!LastInReach /\ MailKept /\ GatewayKept /\ SyncKept /\ FollowKept /\ SocketKept

LEMMA InitKept == SourcesInit => Kept
<1> SUFFICES ASSUME SourcesInit PROVE Kept
  OBVIOUS
<1> USE DEF SourcesInit
<1>1. D!LastInReach
  BY DEF D!Init, D!LastInReach
<1>2. MailKept
  BY DEF M!Init, MailKept
<1>3. GatewayKept
  BY DEF G!Init, GatewayKept, Knows, G!StillInLog
<1>4. SyncKept
  BY DEF Y!Init, SyncKept, SeenTold, Y!TokenCovers
<1>5. FollowKept
  BY DEF U!Init, FollowKept, U!AllAccounted, U!Messages
<1>6. SocketKept
  BY DEF K!Init, SocketKept, Remembered, K!AckedIsWorkedOn
<1> QED BY <1>1, <1>2, <1>3, <1>4, <1>5, <1>6 DEF Kept

LEMMA KeptHolds == SourcesSpec => []Kept
<1>1. QuietInv /\ MailInv /\ GatewayInv /\ SyncInv /\ FollowInv /\ SocketInv /\ Kept /\ [SourcesNext]_all => Kept'
  <2> SUFFICES ASSUME QuietInv, MailInv, GatewayInv, SyncInv, FollowInv, SocketInv, Kept, [SourcesNext]_all
               PROVE  Kept'
    OBVIOUS
  <2>t. D!TypeOK /\ M!TypeOK /\ U!TypeOK /\ K!TypeOK
    BY DEF QuietInv, MailInv, FollowInv, SocketInv
  <2>k. D!LastInReach /\ MailKept /\ GatewayKept /\ SyncKept /\ FollowKept /\ SocketKept
    BY DEF Kept
  <2>1. D!LastInReach' /\ MailKept'
    BY <2>t, <2>k, SourcesStep, StepReach, StepMailKept
  <2>2. GatewayKept' /\ SyncKept'
    BY <2>k, SourcesStep, StepGatewayKept, StepSyncKept
  <2>3. FollowKept' /\ SocketKept'
    BY <2>t, <2>k, SourcesStep, StepFollowKept, StepSocketKept
  <2> QED BY <2>1, <2>2, <2>3 DEF Kept
<1> QED BY InitKept, <1>1, QuietInvHolds, MailInvHolds, GatewayInvHolds, SyncInvHolds, FollowInvHolds,
           SocketInvHolds, PTL DEF SourcesSpec

\* A source passes over nothing that it should tell: whatever it drops as told was told or is
\* being told, and whatever fails, ends or restarts leaves the rest where it will look for it;
\* what it cannot reach was lost with its stream, its session or its process (Debounce,
\* MailPoll, Gateway, Sync, Subscription, SlackSocket).
THEOREM NothingPassedOverHolds == SourcesSpec => []NothingPassedOver
<1>1. MailInv /\ Kept => NothingPassedOver
  <2> SUFFICES ASSUME MailInv, Kept PROVE NothingPassedOver
    OBVIOUS
  <2>1. M!StillUnseen
    BY MailKeptUnseen DEF MailInv, Kept
  <2> QED BY <2>1 DEF Kept, GatewayKept, SyncKept, FollowKept, SocketKept, NothingPassedOver
<1> QED BY <1>1, KeptHolds, MailInvHolds, PTL
=============================================================================

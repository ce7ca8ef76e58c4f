--------------------------- MODULE SourcesOnce_proofs ---------------------------
(***************************************************************************)
(* That the sources emit once what they emit (email, discord, the polls,   *)
(* slack's socket, ntfy and its like), and the types of all the sources.   *)
(***************************************************************************)
EXTENDS Sources_proofs, FiniteSetTheorems

\* There is one way to count.
LEMMA SameCount == \A X : K!Cardinality(X) = Cardinality(X)
BY DEF Cardinality, K!Cardinality
-----------------------------------------------------------------------------
(* MailPoll. *)

\* One mail is at hand at most, and until it is emitted its message counts as handled but
\* not as told of.
AtHand ==
    /\ \A m, n \in now : m = n
    /\ mPc = "emit" => \A m \in now : IdOf(m) \in dedup /\ emits[IdOf(m)] <= restarts
NotTold == \A i \in M!Ids : i \notin dedup => emits[i] <= restarts
MailInv == M!TypeOK /\ AtHand /\ NotTold /\ M!EmittedOnce

LEMMA InitMail == M!Init => MailInv
BY MailAssumption DEF M!Init, MailInv, M!TypeOK, AtHand, NotTold, M!EmittedOnce

LEMMA StepMail == ASSUME MailInv, M!Next \/ UNCHANGED M!vars PROVE MailInv'
<1> USE MailAssumption DEF MailInv, M!TypeOK
<1>0. \A m \in Mails : IdOf(m) \in M!Ids
  BY DEF M!Ids
<1>1. ASSUME NEW m \in Mails, M!Arrive(m) \/ M!ReadElsewhere(m) PROVE MailInv'
  BY <1>1 DEF M!Arrive, M!ReadElsewhere, M!poll, AtHand, NotTold, M!EmittedOnce
<1>2. CASE M!Connect \/ M!Search \/ M!Sleep
  BY <1>2 DEF M!Connect, M!Search, M!Sleep, M!mailbox, AtHand, NotTold, M!EmittedOnce
<1>3. CASE M!Fail
  BY <1>3 DEF M!Fail, M!mailbox, AtHand, NotTold, M!EmittedOnce
<1>4. ASSUME NEW m \in Mails, M!Fetch(m) PROVE MailInv'
  <2>1. CASE IdOf(m) \in dedup
    BY <1>4, <2>1 DEF M!Fetch, M!mailbox, AtHand, NotTold, M!EmittedOnce
  <2>2. CASE IdOf(m) \notin dedup
    <3>1. emits[IdOf(m)] <= restarts
      BY <1>0, <2>2 DEF NotTold
    <3>2. now' = {m} /\ mPc' = "emit" /\ mLeft' = mLeft \ {m} /\ dedup' = dedup \cup {IdOf(m)} /\ m \in mLeft
          /\ UNCHANGED <<M!mailbox, emits, mFailures, restarts>>
      BY <1>4, <2>2 DEF M!Fetch
    <3> QED BY <1>0, <3>1, <3>2 DEF M!mailbox, AtHand, NotTold, M!EmittedOnce
  <2> QED BY <2>1, <2>2
<1>5. CASE M!Emit
  <2>1. /\ emits' \in [M!Ids -> Nat]
        /\ \A i \in M!Ids : emits'[i] = IF \E m \in now : IdOf(m) = i THEN emits[i] + 1 ELSE emits[i]
    BY <1>5 DEF M!Emit
  <2>2. NotTold' /\ M!EmittedOnce'
    BY <1>5, <2>1 DEF M!Emit, AtHand, NotTold, M!EmittedOnce
  <2>3. AtHand'
    BY <1>5 DEF M!Emit, AtHand
  <2>4. M!TypeOK'
    BY <1>5, <2>1 DEF M!Emit, M!mailbox
  <2> QED BY <2>2, <2>3, <2>4
<1>6. CASE M!MarkSeen
  BY <1>6 DEF M!MarkSeen, AtHand, NotTold, M!EmittedOnce
<1>7. CASE M!Restart
  BY <1>7 DEF M!Restart, M!mailbox, AtHand, NotTold, M!EmittedOnce
<1>8. CASE UNCHANGED M!vars
  BY <1>8 DEF M!vars, M!mailbox, M!poll, AtHand, NotTold, M!EmittedOnce
<1> QED BY <1>1, <1>2, <1>3, <1>4, <1>5, <1>6, <1>7, <1>8 DEF M!Next, M!Poll

-----------------------------------------------------------------------------
(* Gateway. *)

\* The client knows the session that there is or none, and then no number; what it dispatches
\* goes on where it stopped.
Resumes ==
    /\ sessionID \in {0, session.id} /\ (sessionID = 0 => seq = 0)
    /\ gConn = "identify" => sessionID = 0
    /\ gConn = "resume" => sessionID # 0
    /\ gConn = "live" => place = seq /\ session.id # 0
\* The log may still be dispatched.
Counts == gConn = "live" \/ session.kept \/ sessionID # 0
\* A reply is in the log once, and emitted only up to the client's number.
Logged ==
    /\ \A i \in DOMAIN log : log[i] # G!Other => log[i] \in happened
    /\ \A i, j \in DOMAIN log : log[i] # G!Other /\ log[i] = log[j] => i = j
    /\ \A n \in G!Replies : gEmitted[n] > 0 => n \in happened
    /\ Counts => \A i \in DOMAIN log : log[i] # G!Other /\ gEmitted[log[i]] > 0 => i <= seq
GatewayInv == G!TypeOK /\ Resumes /\ Logged /\ G!EmittedOnce

LEMMA InitGateway == G!Init => GatewayInv
<1> SUFFICES ASSUME G!Init PROVE GatewayInv
  OBVIOUS
<1> USE GatewayAssumption DEF G!Init, G!Replies, G!Other
<1>1. G!TypeOK
  <2>1. \A X : <<>> \in Seq(X)
    OBVIOUS
  <2>2. log = <<>> /\ Len(log) = 0 /\ 0 \in 0..MaxOthers /\ 0 \in 0..MaxDrops
    OBVIOUS
  <2>3. session \in [id : Nat, kept : BOOLEAN, told : BOOLEAN] /\ session.id = 0
    OBVIOUS
  <2>4. gEmitted \in [G!Replies -> Nat]
    OBVIOUS
  <2> QED BY <2>1, <2>2, <2>3, <2>4 DEF G!TypeOK
<1>2. Resumes
  BY DEF Resumes
<1>3. Logged
  BY DEF Logged
<1>4. G!EmittedOnce
  BY DEF G!EmittedOnce
<1> QED BY <1>1, <1>2, <1>3, <1>4 DEF GatewayInv

\* What is appended comes last.
LEMMA Appended ==
    ASSUME NEW X, NEW s \in Seq(X), NEW e \in X
    PROVE  /\ Append(s, e) \in Seq(X) /\ Len(Append(s, e)) = Len(s) + 1
           /\ \A i \in DOMAIN s : i \in DOMAIN Append(s, e) /\ Append(s, e)[i] = s[i]
           /\ Append(s, e)[Len(s) + 1] = e
           /\ \A i \in DOMAIN Append(s, e) : i \in DOMAIN s \/ i = Len(s) + 1
           /\ Len(s) + 1 \notin DOMAIN s
OBVIOUS

LEMMA StepGateway == ASSUME GatewayInv, G!Next \/ UNCHANGED G!vars PROVE GatewayInv'
<1> USE GatewayAssumption DEF G!gateway, G!client
<1>t. G!TypeOK /\ Resumes /\ Logged /\ G!EmittedOnce
  BY DEF GatewayInv
<1>l. log \in Seq(G!Replies \cup {G!Other}) /\ Len(log) \in Nat /\ DOMAIN log = 1..Len(log)
  BY <1>t DEF G!TypeOK
<1>o. G!Other \notin G!Replies
  BY DEF G!Other, G!Replies
<1>1. ASSUME NEW n \in G!Replies, G!Reply(n) PROVE GatewayInv'
  <2>1. CASE session.kept
    <3>1. log' = Append(log, n) /\ UNCHANGED <<gMissed, session, place, gConn, sessionID, seq, gEmitted, others, drops>>
          /\ n \notin happened /\ happened' = happened \cup {n}
      BY <1>1, <2>1 DEF G!Reply
    <3>2. /\ log' \in Seq(G!Replies \cup {G!Other}) /\ Len(log') = Len(log) + 1
          /\ \A i \in DOMAIN log : i \in DOMAIN log' /\ log'[i] = log[i]
          /\ log'[Len(log) + 1] = n /\ \A i \in DOMAIN log' : i \in DOMAIN log \/ i = Len(log) + 1
      BY <3>1, <1>l, Appended
    <3>3. G!TypeOK'
      BY <1>t, <1>l, <3>1, <3>2 DEF G!TypeOK
    <3>4. Logged'
      <4>1. gEmitted[n] \in Nat /\ ~(gEmitted[n] > 0)
        BY <1>t, <3>1 DEF Logged, G!TypeOK
      <4> QED BY <1>t, <1>o, <3>1, <3>2, <4>1 DEF Logged, Counts
    <3> QED BY <1>t, <3>1, <3>3, <3>4 DEF GatewayInv, Resumes, G!EmittedOnce
  <2>2. CASE ~session.kept
    <3>1. happened' = happened \cup {n} /\ gMissed' = gMissed \cup {n}
          /\ UNCHANGED <<log, session, place, gConn, sessionID, seq, gEmitted, others, drops>>
      BY <1>1, <2>2 DEF G!Reply
    <3> QED BY <1>t, <3>1 DEF GatewayInv, G!TypeOK, Resumes, Logged, Counts, G!EmittedOnce
  <2> QED BY <2>1, <2>2
<1>2. CASE G!Chatter
  <2>1. log' = Append(log, G!Other) /\ others' \in 0..MaxOthers
        /\ UNCHANGED <<session, place, gConn, sessionID, seq, gEmitted, happened, gMissed, drops>>
    BY <1>2, <1>t DEF G!Chatter, G!TypeOK
  <2>2. /\ log' \in Seq(G!Replies \cup {G!Other}) /\ Len(log') = Len(log) + 1
        /\ \A i \in DOMAIN log : i \in DOMAIN log' /\ log'[i] = log[i]
        /\ log'[Len(log) + 1] = G!Other /\ \A i \in DOMAIN log' : i \in DOMAIN log \/ i = Len(log) + 1
    BY <2>1, <1>l, Appended
  <2>3. G!TypeOK'
    BY <1>t, <1>l, <2>1, <2>2 DEF G!TypeOK
  <2>4. Logged'
    BY <1>t, <1>o, <2>1, <2>2 DEF Logged, Counts
  <2> QED BY <1>t, <2>1, <2>3, <2>4 DEF GatewayInv, Resumes, G!EmittedOnce
<1>3. CASE G!Expire
  <2>1. session' = [session EXCEPT !.kept = FALSE] /\ drops' \in 0..MaxDrops /\ gMissed' = gMissed \cup G!Unheard
        /\ UNCHANGED <<log, place, gConn, sessionID, seq, gEmitted, happened, others>>
    BY <1>3, <1>t DEF G!Expire, G!TypeOK
  <2>2. session' \in [id : Nat, kept : BOOLEAN, told : BOOLEAN] /\ session'.id = session.id /\ session'.kept = FALSE
    BY <1>t, <2>1 DEF G!TypeOK
  <2>3. G!Unheard \subseteq happened
    BY <1>t, <1>o DEF G!Unheard, Logged
  <2>4. G!TypeOK'
    BY <1>t, <2>1, <2>2, <2>3 DEF G!TypeOK
  <2>5. Resumes' /\ G!EmittedOnce'
    BY <1>t, <2>1, <2>2 DEF Resumes, G!EmittedOnce
  <2>6. Counts' => Counts
    BY <2>1, <2>2 DEF Counts
  <2> QED BY <1>t, <2>1, <2>4, <2>5, <2>6 DEF GatewayInv, Logged
<1>4. CASE G!Accept
  <2>1. gConn = "identify" /\ gConn' = "live" /\ log' = <<G!Other>> /\ place' = 0
        /\ UNCHANGED <<sessionID, seq, gEmitted, happened, others, drops>>
        /\ session' = [id |-> session.id + 1, kept |-> TRUE, told |-> FALSE]
        /\ (gMissed' = gMissed \/ gMissed' = gMissed \cup G!Unheard)
    BY <1>4 DEF G!Accept
  <2>2. sessionID = 0 /\ seq = 0
    BY <1>t, <2>1 DEF Resumes
  <2>3. G!Unheard \subseteq happened
    BY <1>t, <1>o DEF G!Unheard, Logged
  <2>4. log' \in Seq(G!Replies \cup {G!Other}) /\ Len(log') = 1 /\ DOMAIN log' = {1} /\ log'[1] = G!Other
    BY <2>1
  <2>5. session'.id \in Nat /\ session'.id # 0 /\ session' \in [id : Nat, kept : BOOLEAN, told : BOOLEAN]
    BY <1>t, <2>1 DEF G!TypeOK
  <2>6. G!TypeOK'
    BY <1>t, <2>1, <2>2, <2>3, <2>4, <2>5 DEF G!TypeOK
  <2>7. Resumes'
    BY <2>1, <2>2, <2>5 DEF Resumes
  <2>8. Logged'
    BY <1>t, <2>1, <2>4 DEF Logged
  <2> QED BY <1>t, <2>1, <2>6, <2>7, <2>8 DEF GatewayInv, G!EmittedOnce
<1>5. CASE G!Replay
  BY <1>t, <1>5 DEF G!Replay, GatewayInv, G!TypeOK, Resumes, Logged, Counts, G!EmittedOnce
<1>6. CASE G!Connect
  BY <1>t, <1>6 DEF G!Connect, GatewayInv, G!TypeOK, Resumes, Logged, Counts, G!EmittedOnce
<1>7. CASE G!Hello
  BY <1>t, <1>7 DEF G!Hello, GatewayInv, G!TypeOK, Resumes, Logged, Counts, G!EmittedOnce
<1>8. CASE G!InvalidSession
  <2>1. ~session.kept
    BY <1>t, <1>8 DEF G!InvalidSession, G!GivenUp, Resumes
  <2>2. ~Counts'
    BY <1>8, <2>1 DEF G!InvalidSession, Counts
  <2> QED BY <1>t, <1>l, <1>8, <2>2 DEF G!InvalidSession, GatewayInv, G!TypeOK, Resumes, Logged, G!EmittedOnce
<1>9. CASE G!Drop
  <2>1. drops' \in 0..MaxDrops
    BY <1>9, <1>t DEF G!Drop, G!TypeOK
  <2> QED BY <1>t, <1>9, <2>1 DEF G!Drop, GatewayInv, G!TypeOK, Resumes, Logged, Counts, G!EmittedOnce
<1>10. CASE G!Dispatch
  <2> DEFINE n == log[place + 1]
  <2>1. /\ gConn = "live" /\ place < Len(log) /\ place' = place + 1 /\ seq' = place + 1
        /\ session' = [session EXCEPT !.told = TRUE]
        /\ sessionID' = IF place = 0 THEN session.id ELSE sessionID
        /\ gEmitted' = IF n = G!Other THEN gEmitted ELSE [gEmitted EXCEPT ![n] = @ + 1]
        /\ UNCHANGED <<log, gConn, happened, gMissed, others, drops>>
    BY <1>10 DEF G!Dispatch
  <2>2. place \in Nat /\ place + 1 \in DOMAIN log /\ n \in G!Replies \cup {G!Other} /\ place = seq /\ session.id # 0
    BY <1>t, <1>l, <2>1 DEF G!TypeOK, Resumes
  <2>3. session' \in [id : Nat, kept : BOOLEAN, told : BOOLEAN] /\ session'.id = session.id
    BY <1>t, <2>1 DEF G!TypeOK
  <2>4. sessionID' = session.id
    BY <1>t, <2>1, <2>2 DEF Resumes
  <2>5. Counts
    BY <2>1 DEF Counts
  <2>6. n # G!Other => gEmitted[n] = 0
    BY <1>t, <2>2, <2>5 DEF G!TypeOK, Logged
  <2> HIDE DEF n
  <2>7. gEmitted' \in [G!Replies -> Nat] /\ \A k \in G!Replies : gEmitted'[k] = IF k = n THEN 1 ELSE gEmitted[k]
    BY <1>t, <1>o, <2>1, <2>2, <2>6 DEF G!TypeOK
  <2>8. G!TypeOK'
    BY <1>t, <1>l, <2>1, <2>2, <2>3, <2>4, <2>7 DEF G!TypeOK
  <2>9. Resumes'
    BY <2>1, <2>2, <2>3, <2>4 DEF Resumes
  <2>10. G!EmittedOnce'
    BY <1>t, <2>7 DEF G!EmittedOnce, G!TypeOK
  <2>11. Logged'
    <3>1. n # G!Other => n \in happened
      BY <1>t, <2>2 DEF Logged, n
    <3>2. \A k \in G!Replies : gEmitted'[k] > 0 => k \in happened'
      BY <1>t, <2>1, <2>2, <2>7, <3>1, <1>o DEF Logged, G!TypeOK
    <3>3. ASSUME NEW i \in DOMAIN log, log[i] # G!Other, gEmitted'[log[i]] > 0 PROVE i <= seq'
      <4>1. log[i] \in G!Replies /\ i \in Nat
        BY <1>l, <3>3
      <4>2. CASE log[i] = n
        BY <1>t, <2>1, <2>2, <3>3, <4>1, <4>2 DEF Logged, n
      <4>3. CASE log[i] # n
        <5>1. i <= seq
          BY <1>t, <2>5, <2>7, <3>3, <4>1, <4>3 DEF Logged
        <5> QED BY <2>1, <2>2, <4>1, <5>1
      <4> QED BY <4>2, <4>3
    <3> QED BY <1>t, <2>1, <3>2, <3>3 DEF Logged
  <2> QED BY <2>8, <2>9, <2>10, <2>11 DEF GatewayInv
<1>11. CASE UNCHANGED G!vars
  BY <1>t, <1>11 DEF G!vars, GatewayInv, G!TypeOK, Resumes, Logged, Counts, G!EmittedOnce
<1> QED BY <1>1, <1>2, <1>3, <1>4, <1>5, <1>6, <1>7, <1>8, <1>9, <1>10, <1>11 DEF G!Next, G!Client

-----------------------------------------------------------------------------
(* Polls. *)

States   == UNION {p.states : p \in P!Polled}
PollKeys == {<<t>> : t \in Things} \cup {<<t, s>> : t \in Things, s \in States}
PollsInv == P!TypeOK /\ accepted \in Seq(PollKeys) /\ P!EmittedOnce

LEMMA KeyIsKey == ASSUME NEW t \in Things, NEW s \in source.states, source \in P!Polled PROVE P!KeyOf(t, s) \in PollKeys
<1>1. s \in States
  BY DEF States
<1> QED BY <1>1 DEF P!KeyOf, PollKeys

\* What is let through was not among the last Max.
LEMMA LetThrough ==
    ASSUME NEW X, accepted \in Seq(X), P!EmittedOnce, NEW id \in X, P!W!Accept(id)
    PROVE  accepted' \in Seq(X) /\ P!EmittedOnce'
<1> USE PollsAssumption
<1>1. accepted' = Append(accepted, id) /\ id \notin P!W!Recent
  BY DEF P!W!Accept
<1>2. accepted' \in Seq(X)
  BY <1>1
<1> SUFFICES ASSUME NEW m \in DOMAIN accepted', NEW n \in DOMAIN accepted', m < n, accepted'[m] = accepted'[n]
             PROVE  n - m > Max
  BY <1>2 DEF P!EmittedOnce
<1>3. DOMAIN accepted = 1..Len(accepted) /\ DOMAIN accepted' = 1..(Len(accepted) + 1) /\ Len(accepted) \in Nat
  BY <1>1
<1>4. m \in DOMAIN accepted /\ accepted'[m] = accepted[m]
  BY <1>1, <1>3
<1>5. CASE n \in DOMAIN accepted
  <2>1. accepted'[n] = accepted[n]
    BY <1>1, <1>5
  <2> QED BY <1>4, <1>5, <2>1 DEF P!EmittedOnce
<1>6. CASE n \notin DOMAIN accepted
  <2>1. n = Len(accepted) + 1 /\ accepted'[n] = id
    BY <1>1, <1>3, <1>6
  <2>2. ~(m > Len(accepted) - Max)
    BY <1>1, <1>4, <2>1 DEF P!W!Recent
  <2> QED BY <1>3, <1>4, <2>1, <2>2
<1> QED BY <1>5, <1>6

LEMMA InitPolls == P!Init => PollsInv
<1> SUFFICES ASSUME P!Init PROVE PollsInv
  OBVIOUS
<1> USE PollsAssumption DEF P!Init
<1>1. state \in [Things -> source.states] /\ list \in [Things -> source.states]
  OBVIOUS
<1>2. turns \in [Things -> 0..MaxTurns] /\ pFailures \in 0..PollFailures /\ pRestarts \in 0..PollRestarts
  OBVIOUS
<1>3. P!TypeOK
  BY <1>1, <1>2 DEF P!TypeOK
<1>4. accepted \in Seq(PollKeys) /\ P!EmittedOnce
  BY DEF P!EmittedOnce
<1> QED BY <1>3, <1>4 DEF PollsInv

LEMMA StepPolls == ASSUME PollsInv, P!Next \/ UNCHANGED P!vars PROVE PollsInv'
<1> USE PollsAssumption
<1>t. P!TypeOK /\ accepted \in Seq(PollKeys) /\ P!EmittedOnce
  BY DEF PollsInv
<1>1. ASSUME NEW t \in Things, NEW s \in source.states, P!Change(t, s) PROVE PollsInv'
  <2>1. turns[t] < MaxTurns /\ turns' = [turns EXCEPT ![t] = @ + 1] /\ state' = [state EXCEPT ![t] = s]
        /\ UNCHANGED <<source, pLeft, list, accepted, pFailures, pRestarts>>
    BY <1>1 DEF P!Change
  <2>2. turns' \in [Things -> 0..MaxTurns]
    BY <1>t, <2>1 DEF P!TypeOK
  <2> QED BY <1>t, <2>1, <2>2 DEF PollsInv, P!TypeOK, P!EmittedOnce
<1>2. CASE P!Poll
  BY <1>t, <1>2 DEF P!Poll, PollsInv, P!TypeOK, P!EmittedOnce
<1>3. CASE P!PollFails
  BY <1>t, <1>3 DEF P!PollFails, PollsInv, P!TypeOK, P!EmittedOnce
<1>4. CASE P!Restart
  <2>1. accepted' = <<>> /\ pRestarts' \in 0..PollRestarts /\ pLeft' = {}
        /\ UNCHANGED <<source, state, turns, list, pFailures>>
    BY <1>t, <1>4 DEF P!Restart, P!TypeOK
  <2> QED BY <1>t, <2>1 DEF PollsInv, P!TypeOK, P!EmittedOnce
<1>5. ASSUME NEW t \in Things, P!SkipDevice(t) PROVE PollsInv'
  BY <1>t, <1>5 DEF P!SkipDevice, PollsInv, P!TypeOK, P!EmittedOnce
<1>6. ASSUME NEW t \in Things, P!Look(t) PROVE PollsInv'
  <2>1. P!TypeOK'
    BY <1>t, <1>6 DEF P!Look, P!TypeOK
  <2>2. CASE P!W!Accept(P!KeyOf(t, P!Found(t)))
    <3>1. P!Found(t) \in source.states
      BY <1>t DEF P!Found, P!TypeOK
    <3>2. P!KeyOf(t, P!Found(t)) \in PollKeys
      BY <1>t, <3>1, KeyIsKey DEF P!TypeOK
    <3> QED BY <1>t, <2>1, <2>2, <3>2, LetThrough DEF PollsInv
  <2>3. CASE accepted' = accepted
    BY <1>t, <2>1, <2>3 DEF PollsInv, P!EmittedOnce
  <2> QED BY <1>6, <2>2, <2>3 DEF P!Look
<1>7. CASE UNCHANGED P!vars
  BY <1>t, <1>7 DEF P!vars, PollsInv, P!TypeOK, P!EmittedOnce
<1> QED BY <1>1, <1>2, <1>3, <1>4, <1>5, <1>6, <1>7 DEF P!Next

-----------------------------------------------------------------------------
(* Subscription. *)

\* A message that will be emitted when it is read.
Fresh(m) == ~follower.dedups \/ m \notin uSeen

\* What comes is in order behind what was told, but for what MQTT retains.
InFlow ==
    /\ \A j \in DOMAIN pipe : pipe[j] <= published
    /\ \A i, j \in DOMAIN pipe : i < j /\ Fresh(pipe[i]) /\ Fresh(pipe[j]) => pipe[i] < pipe[j]
    /\ \A i \in DOMAIN uTold, j \in DOMAIN pipe : Fresh(pipe[j]) =>
          \/ uTold[i] < pipe[j]
          \/ follower.retained /\ uTold[i] = pipe[j] /\ uDrops > 0
\* What was told was published, and is remembered by one that deduplicates.
WasTold == \A i \in DOMAIN uTold : uTold[i] <= published /\ (follower.dedups => uTold[i] \in uSeen)
\* Nothing was told by a loop that never followed.
Begun ==
    /\ uConn \in {"silent", "deaf"} => uDrops > 0
    /\ uConn \in {"down", "up"} /\ uDrops = 0 => uTold = <<>>
FollowInv == U!TypeOK /\ InFlow /\ WasTold /\ Begun /\ U!InOrder

LEMMA InitFollow == U!Init => FollowInv
<1> SUFFICES ASSUME U!Init PROVE FollowInv
  OBVIOUS
<1> USE SubscriptionAssumption DEF U!Init
<1>1. U!TypeOK
  <2>1. \A X : <<>> \in Seq(X)
    OBVIOUS
  <2>2. 0 \in 0..LastMessage /\ 0 \in 0..StreamDrops /\ 0 \in 0..MaxAgain /\ 1 \in 1..(2 * U!MaxBackoff)
    BY DEF U!MaxBackoff
  <2> QED BY <2>1, <2>2 DEF U!TypeOK
<1>2. InFlow /\ WasTold /\ Begun /\ U!InOrder
  BY DEF InFlow, WasTold, Begun, U!InOrder
<1> QED BY <1>1, <1>2 DEF FollowInv

LEMMA ElementsOf == ASSUME NEW X, NEW s \in Seq(X) PROVE U!Elements(s) \subseteq X
BY DEF U!Elements

LEMMA StepFollow == ASSUME FollowInv, U!Next \/ UNCHANGED U!vars PROVE FollowInv'
<1> USE SubscriptionAssumption
<1>t. U!TypeOK /\ InFlow /\ WasTold /\ Begun /\ U!InOrder
  BY DEF FollowInv
<1>p. pipe \in Seq(U!Messages) /\ uTold \in Seq(U!Messages) /\ published \in 0..LastMessage /\ uDrops \in 0..StreamDrops
  BY <1>t DEF U!TypeOK
<1>m. \A m \in U!Messages : m \in Nat
  BY DEF U!Messages
<1>e. U!Elements(pipe) \subseteq U!Messages /\ U!Elements(uTold) \subseteq U!Messages
  BY <1>p, ElementsOf
<1>1. CASE U!Publish
  <2>1. published' = published + 1 /\ published < LastMessage /\ published + 1 \in U!Messages
        /\ UNCHANGED <<follower, uConn, backoff, uSeen, uTold, uDrops, agains>>
    BY <1>1, <1>p DEF U!Publish, U!Messages
  <2>2. WasTold' /\ Begun' /\ U!InOrder'
    BY <1>t, <1>p, <1>m, <2>1 DEF WasTold, Begun, U!InOrder
  <2>3. CASE pipe' = Append(pipe, published + 1) /\ uMissed' = uMissed
    <3>1. /\ pipe' \in Seq(U!Messages) /\ Len(pipe') = Len(pipe) + 1 /\ pipe'[Len(pipe) + 1] = published + 1
          /\ \A j \in DOMAIN pipe' : j = Len(pipe) + 1 \/ (j \in DOMAIN pipe /\ pipe'[j] = pipe[j])
          /\ \A j \in DOMAIN pipe : j < Len(pipe) + 1 /\ j \in Nat
      BY <1>p, <2>1, <2>3
    <3>2. U!TypeOK'
      BY <1>t, <1>p, <2>1, <2>3, <3>1 DEF U!TypeOK
    <3>3. \A j \in DOMAIN pipe' : pipe'[j] <= published'
      BY <1>t, <1>p, <1>m, <2>1, <3>1 DEF InFlow
    <3>4. ASSUME NEW i \in DOMAIN pipe', NEW j \in DOMAIN pipe', i < j, Fresh(pipe'[i]), Fresh(pipe'[j])
          PROVE  pipe'[i] < pipe'[j]
      <4>1. i \in DOMAIN pipe /\ pipe'[i] = pipe[i]
        BY <1>p, <3>1, <3>4
      <4>2. pipe[i] <= published /\ pipe[i] \in Nat
        BY <1>t, <1>p, <1>m, <4>1 DEF InFlow
      <4> QED BY <1>t, <1>p, <3>1, <3>4, <4>1, <4>2 DEF InFlow
    <3>5. ASSUME NEW i \in DOMAIN uTold, NEW j \in DOMAIN pipe', Fresh(pipe'[j])
          PROVE  uTold[i] < pipe'[j] \/ (follower.retained /\ uTold[i] = pipe'[j] /\ uDrops > 0)
      <4>1. uTold[i] <= published /\ uTold[i] \in Nat
        BY <1>t, <1>p, <1>m DEF WasTold
      <4> QED BY <1>t, <1>p, <3>1, <3>5, <4>1 DEF InFlow
    <3>6. InFlow'
      BY <2>1, <3>3, <3>4, <3>5 DEF InFlow, Fresh
    <3> QED BY <2>2, <3>2, <3>6 DEF FollowInv
  <2>4. CASE pipe' = pipe /\ uMissed' = uMissed \cup {published + 1}
    <3>1. U!TypeOK'
      BY <1>t, <1>p, <2>1, <2>4 DEF U!TypeOK
    <3>2. InFlow'
      BY <1>t, <1>p, <1>m, <2>1, <2>4 DEF InFlow, Fresh
    <3> QED BY <2>2, <3>1, <3>2 DEF FollowInv
  <2> QED BY <1>1, <2>3, <2>4 DEF U!Publish
<1>2. CASE U!Connect
  BY <1>t, <1>2 DEF U!Connect, FollowInv, U!TypeOK, InFlow, WasTold, Begun, U!InOrder, Fresh
<1>3. CASE U!Subscribe
  <2>1. /\ uConn = "up" /\ uConn' = "following" /\ uMissed' \subseteq uMissed
        /\ pipe' = IF follower.retained /\ published > 0 THEN <<published>> ELSE <<>>
        /\ UNCHANGED <<follower, backoff, published, uSeen, uTold, uDrops, agains>>
    BY <1>3 DEF U!Subscribe
  <2>2. WasTold' /\ Begun' /\ U!InOrder'
    BY <1>t, <2>1 DEF WasTold, Begun, U!InOrder
  <2>3. /\ pipe' \in Seq(U!Messages) /\ \A j \in DOMAIN pipe' : j = 1 /\ pipe'[j] = published /\ follower.retained
    <3>1. CASE follower.retained /\ published > 0
      <4>1. published \in U!Messages /\ pipe' = <<published>>
        BY <1>p, <2>1, <3>1 DEF U!Messages
      <4> QED BY <3>1, <4>1
    <3>2. CASE ~(follower.retained /\ published > 0)
      BY <2>1, <3>2
    <3> QED BY <3>1, <3>2
  <2>4. U!TypeOK'
    BY <1>t, <2>1, <2>3 DEF U!TypeOK
  <2>5. ASSUME NEW i \in DOMAIN uTold, NEW j \in DOMAIN pipe'
        PROVE  uTold[i] < pipe'[j] \/ (follower.retained /\ uTold[i] = pipe'[j] /\ uDrops > 0)
    <3>1. uTold[i] <= published /\ uTold[i] \in Nat
      BY <1>t, <1>p, <1>m DEF WasTold
    <3>2. uDrops > 0
      BY <1>t, <1>p, <2>1 DEF Begun
    <3> QED BY <1>p, <2>3, <3>1, <3>2
  <2>6. InFlow'
    BY <1>p, <2>1, <2>3, <2>5 DEF InFlow
  <2> QED BY <2>2, <2>4, <2>6 DEF FollowInv
<1>4. CASE U!Refuse
  <2>1. uConn' = "deaf" /\ uDrops' = uDrops + 1 /\ uDrops < StreamDrops
        /\ UNCHANGED <<follower, backoff, published, pipe, uSeen, uTold, uMissed, agains>>
    BY <1>4 DEF U!Refuse
  <2>2. U!TypeOK' /\ Begun'
    BY <1>t, <2>1 DEF U!TypeOK, Begun
  <2> QED BY <1>t, <1>p, <2>1, <2>2 DEF FollowInv, InFlow, WasTold, U!InOrder, Fresh
<1>5. ASSUME NEW to, to \in {"down", "silent"}, U!Lose(to), uDrops < StreamDrops, uDrops' = uDrops + 1,
             backoff' \in 1..(2 * U!MaxBackoff), UNCHANGED <<follower, published, uSeen, uTold, agains>>
      PROVE  FollowInv'
  <2>1. uConn' = to /\ pipe' = <<>> /\ uMissed' \subseteq U!Messages
    BY <1>t, <1>e, <1>5 DEF U!Lose, U!TypeOK
  <2>2. U!TypeOK' /\ Begun'
    BY <1>t, <1>5, <2>1 DEF U!TypeOK, Begun
  <2>3. InFlow'
    BY <2>1 DEF InFlow
  <2> QED BY <1>t, <1>p, <1>5, <2>2, <2>3 DEF FollowInv, WasTold, U!InOrder
<1>b. backoff \in 1..(2 * U!MaxBackoff) /\ U!Doubled \in 1..(2 * U!MaxBackoff)
  BY <1>t DEF U!TypeOK, U!Doubled, U!MaxBackoff
<1>6. CASE U!Drop
  BY <1>5, <1>6, <1>b DEF U!Drop
<1>7. CASE U!Vanish
  BY <1>5, <1>7, <1>b DEF U!Vanish
<1>8. CASE U!Notice
  <2>1. uConn = "silent" /\ uConn' = "down" /\ backoff' = U!Doubled
        /\ UNCHANGED <<follower, published, pipe, uSeen, uTold, uMissed, uDrops, agains>>
    BY <1>8 DEF U!Notice
  <2> QED BY <1>t, <1>b, <2>1 DEF FollowInv, U!TypeOK, InFlow, WasTold, Begun, U!InOrder, Fresh
<1>9. CASE U!Again
  <2>1. /\ follower.dedups /\ agains' \in 0..MaxAgain
        /\ UNCHANGED <<follower, uConn, backoff, published, uSeen, uTold, uMissed, uDrops>>
    BY <1>t, <1>9 DEF U!Again, U!TypeOK
  <2>2. PICK m \in U!Elements(uTold) : pipe' = Append(pipe, m)
    BY <1>9 DEF U!Again
  <2>3. m \in U!Messages /\ m <= published /\ m \in uSeen
    BY <1>t, <1>e, <2>1, <2>2 DEF WasTold, U!Elements
  <2>4. /\ pipe' \in Seq(U!Messages)
        /\ \A j \in DOMAIN pipe' : pipe'[j] = m \/ (j \in DOMAIN pipe /\ pipe'[j] = pipe[j])
    BY <1>p, <2>2, <2>3
  <2>5. U!TypeOK'
    BY <1>t, <2>1, <2>4 DEF U!TypeOK
  <2>6. ~Fresh(m)
    BY <2>1, <2>3 DEF Fresh
  <2>7. InFlow'
    BY <1>t, <2>1, <2>3, <2>4, <2>6 DEF InFlow, Fresh
  <2> QED BY <1>t, <2>1, <2>5, <2>7 DEF FollowInv, WasTold, Begun, U!InOrder
<1>10. CASE U!Read
  <2>1. /\ uConn = "following" /\ pipe # <<>> /\ pipe' = Tail(pipe)
        /\ UNCHANGED <<follower, uConn, backoff, published, uMissed, uDrops, agains>>
    BY <1>10 DEF U!Read
  <2>2. /\ pipe' \in Seq(U!Messages) /\ Head(pipe) = pipe[1] /\ 1 \in DOMAIN pipe /\ pipe[1] \in U!Messages
        /\ \A j \in DOMAIN pipe' : j + 1 \in DOMAIN pipe /\ pipe'[j] = pipe[j + 1] /\ j + 1 > 1 /\ j \in Nat
    BY <1>p, <2>1
  <2> DEFINE m == pipe[1]
  <2>3. CASE follower.dedups /\ m \in uSeen
    <3>1. UNCHANGED <<uSeen, uTold>>
      BY <1>10, <2>2, <2>3 DEF U!Read
    <3>2. U!TypeOK'
      BY <1>t, <2>1, <2>2, <3>1 DEF U!TypeOK
    <3>3. InFlow'
      BY <1>t, <2>1, <2>2, <3>1 DEF InFlow, Fresh
    <3> QED BY <1>t, <2>1, <3>1, <3>2, <3>3 DEF FollowInv, WasTold, Begun, U!InOrder
  <2>4. CASE ~(follower.dedups /\ m \in uSeen)
    <3>1. /\ uTold' = Append(uTold, m) /\ (follower.dedups => uSeen' = uSeen \cup {m}) /\ uSeen \subseteq uSeen'
          /\ uSeen' \subseteq uSeen \cup {m}
      BY <1>10, <2>2, <2>4 DEF U!Read
    <3>2. Fresh(m)
      BY <2>4 DEF Fresh
    <3>3. /\ uTold' \in Seq(U!Messages)
          /\ \A i \in DOMAIN uTold' : (i \in DOMAIN uTold /\ uTold'[i] = uTold[i]) \/ (i = Len(uTold) + 1 /\ uTold'[i] = m)
          /\ \A i \in DOMAIN uTold : i < Len(uTold) + 1 /\ i \in Nat /\ uTold[i] \in Nat
      BY <1>p, <1>m, <2>2, <3>1
    <3>4. U!TypeOK'
      BY <1>t, <2>1, <2>2, <3>1, <3>3 DEF U!TypeOK
    <3>5. \A x : Fresh(x)' => Fresh(x)
      BY <2>1, <3>1 DEF Fresh
    <3> HIDE DEF m
    <3>6. \A i \in DOMAIN uTold : uTold[i] < m \/ (follower.retained /\ uTold[i] = m /\ uDrops > 0)
      BY <1>t, <2>2, <3>2 DEF InFlow, m
    <3>7. \A j \in DOMAIN pipe' : Fresh(pipe'[j]) => m < pipe'[j]
      BY <1>t, <2>2, <3>2 DEF InFlow, m
    <3>8. WasTold'
      BY <1>t, <2>1, <2>2, <3>1, <3>3 DEF WasTold, InFlow, m
    <3>9. U!InOrder'
      <4> SUFFICES ASSUME NEW i \in DOMAIN uTold', NEW j \in DOMAIN uTold', i < j
                   PROVE  uTold'[i] < uTold'[j] \/ (follower.retained /\ uTold'[i] = uTold'[j] /\ uDrops > 0)
        BY <2>1 DEF U!InOrder
      <4>1. i \in DOMAIN uTold /\ uTold'[i] = uTold[i]
        BY <1>p, <3>1, <3>3
      <4> QED BY <1>t, <3>3, <3>6, <4>1 DEF U!InOrder
    <3>10. InFlow'
      <4>1. \A j \in DOMAIN pipe' : pipe'[j] <= published'
        BY <1>t, <2>1, <2>2 DEF InFlow
      <4>2. ASSUME NEW i \in DOMAIN pipe', NEW j \in DOMAIN pipe', i < j, Fresh(pipe'[i]), Fresh(pipe'[j])
            PROVE  pipe'[i] < pipe'[j]
        BY <1>t, <2>2, <4>2 DEF InFlow
      <4>3. ASSUME NEW i \in DOMAIN uTold', NEW j \in DOMAIN pipe', Fresh(pipe'[j])
            PROVE  uTold'[i] < pipe'[j] \/ (follower.retained /\ uTold'[i] = pipe'[j] /\ uDrops > 0)
        BY <1>t, <2>2, <3>3, <3>7, <4>3 DEF InFlow
      <4> QED BY <2>1, <3>5, <4>1, <4>2, <4>3 DEF InFlow
    <3>11. Begun'
      BY <1>t, <2>1 DEF Begun
    <3> QED BY <3>4, <3>8, <3>9, <3>10, <3>11 DEF FollowInv
  <2> QED BY <2>3, <2>4
<1>11. CASE UNCHANGED U!vars
  BY <1>t, <1>11 DEF U!vars, FollowInv, U!TypeOK, InFlow, WasTold, Begun, U!InOrder, Fresh
<1> QED BY <1>1, <1>2, <1>3, <1>4, <1>6, <1>7, <1>8, <1>9, <1>10, <1>11 DEF U!Next

-----------------------------------------------------------------------------
(* SlackSocket. *)

\* An envelope of which somebody can have sent it.
Sound(e) ==
    /\ e.of \in {"good", "bad"} => kind[e.use] \in K!HasForm /\ e.n \in 1..submits[e.use]
    /\ e.of = "click" => kind[e.use] \in K!HasForm
    /\ e.of = "use" => e.n = 0
SoundSent ==
    /\ \A e \in pending \cup kDedup : Sound(e)
    /\ \A d \in deciding : Sound(d.e)
\* Only what has a form has a button and a modal.
Shown ==
    /\ \A u \in buttons : kind[u] \in K!HasForm
    /\ \A u \in Uses : modals[u] = "open" => kind[u] \in K!HasForm
    /\ \A w \in works : w.do \in {"offer", "open"} => kind[w.of.use] \in K!HasForm

Goods(u)    == {k \in 1..MaxSubmits : [of |-> "good", use |-> u, n |-> k] \in kDedup}
\* The firing envelopes of a use that the process remembers, and what it makes of them.
Counted(u)  == IF kind[u] \in K!HasForm THEN Cardinality(Goods(u))
               ELSE IF [of |-> "use", use |-> u, n |-> 0] \in kDedup THEN 1 ELSE 0
Coming(u)   == IF \E d \in deciding : d.new /\ K!Fires(d.e) /\ d.e.use = u THEN 1 ELSE 0
Emitting(u) == {w \in works : w.do = "emit" /\ w.of.use = u}
Within      == \A u \in Uses : kEmitted[u] + Cardinality(Emitting(u)) + Coming(u) <= Counted(u)

SocketInv == K!TypeOK /\ SoundSent /\ Shown /\ IsFiniteSet(works) /\ Within

LEMMA GoodsFinite == \A u : /\ IsFiniteSet(Goods(u)) /\ Cardinality(Goods(u)) \in Nat
<1> TAKE u
<1>1. IsFiniteSet(1..MaxSubmits) /\ Goods(u) \in SUBSET (1..MaxSubmits)
  BY SocketAssumption, FS_Interval DEF Goods
<1> QED BY <1>1, FS_Subset, FS_CardinalityType

LEMMA EmittingFinite == ASSUME IsFiniteSet(works), NEW u PROVE IsFiniteSet(Emitting(u)) /\ Cardinality(Emitting(u)) \in Nat
<1>1. Emitting(u) \in SUBSET works
  BY DEF Emitting
<1> QED BY <1>1, FS_Subset, FS_CardinalityType

LEMMA InitSocket == K!Init => SocketInv
<1> SUFFICES ASSUME K!Init PROVE SocketInv
  OBVIOUS
<1> USE SocketAssumption DEF K!Init
<1>1. K!TypeOK
  <2>1. /\ copies \in [K!Envelopes -> 0..MaxCopies] /\ clicks \in [Uses -> 0..MaxClicks]
        /\ submits \in [Uses -> 0..MaxSubmits] /\ kEmitted \in [Uses -> Nat]
        /\ modals \in [Uses -> {"none", "open", "closed"}]
    OBVIOUS
  <2>2. K!Cardinality(deciding) <= 1
    BY FS_EmptySet, SameCount
  <2> QED BY <2>1, <2>2 DEF K!TypeOK
<1>2. SoundSent /\ Shown
  BY DEF SoundSent, Shown
<1>3. IsFiniteSet(works)
  BY FS_EmptySet
<1>4. Within
  <2> SUFFICES ASSUME NEW u \in Uses PROVE kEmitted[u] + Cardinality(Emitting(u)) + Coming(u) <= Counted(u)
    BY DEF Within
  <2>1. Emitting(u) = {} /\ Coming(u) = 0 /\ kEmitted[u] = 0
    BY DEF Emitting, Coming
  <2>2. Counted(u) \in Nat
    BY GoodsFinite DEF Counted
  <2> QED BY <2>1, <2>2, FS_EmptySet
<1> QED BY <1>1, <1>2, <1>3, <1>4 DEF SocketInv

\* Steps that touch none of what is counted.
LEMMA WithinStays ==
    ASSUME Within, UNCHANGED <<kind, kDedup, deciding, kEmitted>>,
           \A w : (w \in works' /\ w.do = "emit") <=> (w \in works /\ w.do = "emit")
    PROVE  Within'
<1>1. \A e : K!Fires(e)' <=> K!Fires(e)
  BY DEF K!Fires
<1>2. \A u : Emitting(u)' = Emitting(u)
  BY DEF Emitting
<1>3. \A u : Coming(u)' = Coming(u)
  BY <1>1 DEF Coming
<1>4. \A u : Counted(u)' = Counted(u)
  BY DEF Counted, Goods
<1> QED BY <1>2, <1>3, <1>4 DEF Within

LEMMA PeopleStep ==
    ASSUME SocketInv, NEW u \in Uses,
           K!Use(u) \/ K!Click(u) \/ K!Submit(u, "good") \/ K!Submit(u, "bad") \/ K!Expire(u)
    PROVE  SocketInv'
<1> USE SocketAssumption
<1>t. K!TypeOK /\ SoundSent /\ Shown /\ IsFiniteSet(works) /\ Within
  BY DEF SocketInv
<1>w. Within' /\ IsFiniteSet(works')
  <2>1. UNCHANGED <<kind, kDedup, deciding, kEmitted, works>>
    BY DEF K!Use, K!Click, K!Submit, K!Expire, K!socket, K!people
  <2> QED BY <1>t, <2>1, WithinStays
<1>1. CASE K!Use(u)
  <2>1. [of |-> "use", use |-> u, n |-> 0] \in K!Envelopes
    BY DEF K!Envelopes
  <2>2. /\ pending' = pending \cup {[of |-> "use", use |-> u, n |-> 0]}
        /\ UNCHANGED <<copies, deciding, works, kDedup, forms, kind, buttons, clicks, modals, submits,
                       kEmitted, acked, kLost, ran, signed, kRestarts>>
    BY <1>1 DEF K!Use, K!Sends, K!socket, K!people, K!engine
  <2>3. K!TypeOK'
    BY <1>t, <2>1, <2>2 DEF K!TypeOK
  <2>4. SoundSent' /\ Shown'
    BY <1>t, <2>2 DEF SoundSent, Sound, Shown
  <2> QED BY <1>w, <2>3, <2>4 DEF SocketInv
<1>2. CASE K!Click(u)
  <2> DEFINE e == [of |-> "click", use |-> u, n |-> clicks[u] + 1]
  <2>1. /\ u \in buttons /\ clicks[u] < MaxClicks /\ clicks' = [clicks EXCEPT ![u] = @ + 1]
        /\ pending' = pending \cup {e}
        /\ UNCHANGED <<copies, deciding, works, kDedup, forms, kind, buttons, modals, submits,
                       kEmitted, acked, kLost, ran, signed, kRestarts>>
    BY <1>2 DEF K!Click, K!Sends, K!socket, K!engine
  <2>2. clicks[u] \in 0..MaxClicks /\ clicks' \in [Uses -> 0..MaxClicks]
    BY <1>t, <2>1 DEF K!TypeOK
  <2>3. e \in K!Envelopes
    BY <2>1, <2>2 DEF K!Envelopes
  <2>4. K!TypeOK'
    BY <1>t, <2>1, <2>2, <2>3 DEF K!TypeOK
  <2>5. SoundSent' /\ Shown'
    BY <1>t, <2>1 DEF SoundSent, Sound, Shown
  <2> QED BY <1>w, <2>4, <2>5 DEF SocketInv
<1>3. ASSUME NEW of \in {"good", "bad"}, K!Submit(u, of) PROVE SocketInv'
  <2>0. PICK e : e = [of |-> of, use |-> u, n |-> submits[u] + 1]
    OBVIOUS
  <2>1. /\ modals[u] = "open" /\ submits[u] < MaxSubmits /\ submits' = [submits EXCEPT ![u] = @ + 1]
        /\ pending' = pending \cup {e}
        /\ UNCHANGED <<copies, deciding, works, kDedup, forms, kind, buttons, clicks, modals,
                       kEmitted, acked, kLost, ran, signed, kRestarts>>
    BY <1>3, <2>0 DEF K!Submit, K!Sends, K!socket, K!engine
  <2>2. submits[u] \in 0..MaxSubmits /\ submits' \in [Uses -> 0..MaxSubmits]
    BY <1>t, <2>1 DEF K!TypeOK
  <2>3. e \in K!Envelopes
    BY <2>0, <2>1, <2>2 DEF K!Envelopes
  <2>4. K!TypeOK'
    BY <1>t, <2>1, <2>2, <2>3 DEF K!TypeOK
  <2>5. \A v \in Uses : submits[v] \in Nat /\ submits'[v] \in Nat /\ submits[v] <= submits'[v] /\ submits'[u] = submits[u] + 1
    BY <1>t, <2>1 DEF K!TypeOK
  <2>6. \A x \in K!Envelopes : Sound(x) => Sound(x)'
    BY <2>1, <2>5 DEF Sound, K!Envelopes
  <2>7a. e.of = of /\ e.use = u /\ e.n = submits[u] + 1 /\ kind[u] \in K!HasForm /\ kind' = kind
    BY <1>t, <2>0, <2>1 DEF Shown
  <2>7. Sound(e)'
    <3>1. submits'[u] = submits[u] + 1 /\ submits[u] \in Nat
      BY <2>5
    <3>2. e.n \in 1..submits'[e.use] /\ kind'[e.use] \in K!HasForm /\ e.of # "click" /\ e.of # "use"
      BY <2>7a, <3>1
    <3> QED BY <3>2 DEF Sound
  <2>8. SoundSent'
    <3>1. \A x \in pending \cup kDedup : Sound(x)'
      BY <1>t, <2>6 DEF SoundSent, K!TypeOK
    <3>2. \A d \in deciding : d.e \in K!Envelopes /\ Sound(d.e)
      BY <1>t DEF SoundSent, K!TypeOK
    <3>3. \A d \in deciding : Sound(d.e)'
      BY <2>6, <3>2
    <3>4. \A x \in pending' \cup kDedup' : Sound(x)'
      BY <2>1, <2>7, <3>1
    <3>5. \A d \in deciding' : Sound(d.e)'
      BY <2>1, <3>3
    <3> QED BY <3>4, <3>5 DEF SoundSent
  <2>9. Shown'
    BY <1>t, <2>1 DEF Shown
  <2> QED BY <1>w, <2>4, <2>8, <2>9 DEF SocketInv
<1>4. CASE K!Expire(u)
  <2>1. forms' = forms \ {u}
        /\ UNCHANGED <<pending, copies, deciding, works, kDedup, kind, buttons, clicks, modals, submits,
                       kEmitted, acked, kLost, ran, signed, kRestarts>>
    BY <1>4 DEF K!Expire, K!people, K!engine
  <2>2. K!TypeOK' /\ SoundSent' /\ Shown'
    BY <1>t, <2>1 DEF K!TypeOK, SoundSent, Sound, Shown
  <2> QED BY <1>w, <2>2 DEF SocketInv
<1> QED BY <1>1, <1>2, <1>3, <1>4

LEMMA GiveUpStep == ASSUME SocketInv, NEW e \in K!Envelopes, K!GiveUp(e) PROVE SocketInv'
<1>t. K!TypeOK /\ SoundSent /\ Shown /\ IsFiniteSet(works) /\ Within
  BY DEF SocketInv
<1>1. pending' = pending \ {e}
      /\ UNCHANGED <<copies, deciding, works, kDedup, forms, kind, buttons, clicks, modals, submits,
                     kEmitted, acked, kLost, ran, signed, kRestarts>>
  BY DEF K!GiveUp, K!socket, K!people, K!engine
<1>2. Within'
  BY <1>t, <1>1, WithinStays
<1>3. K!TypeOK' /\ SoundSent' /\ Shown'
  BY <1>t, <1>1 DEF K!TypeOK, SoundSent, Sound, Shown
<1> QED BY <1>t, <1>1, <1>2, <1>3 DEF SocketInv

LEMMA DecideStep == ASSUME SocketInv, NEW e \in K!Envelopes, K!Decide(e) PROVE SocketInv'
<1> USE SocketAssumption
<1>t. K!TypeOK /\ SoundSent /\ Shown /\ IsFiniteSet(works) /\ Within
  BY DEF SocketInv
<1> DEFINE new == K!Keyed(e) => e \notin kDedup
           d == [e |-> e, new |-> new]
<1>1. /\ deciding = {} /\ e \in pending /\ copies[e] < MaxCopies /\ copies' = [copies EXCEPT ![e] = @ + 1]
      /\ deciding' = {d} /\ kDedup' = IF K!Keyed(e) THEN kDedup \cup {e} ELSE kDedup
      /\ UNCHANGED <<pending, works, forms, kind, buttons, clicks, modals, submits,
                     kEmitted, acked, kLost, ran, signed, kRestarts>>
  BY DEF K!Decide, K!people, K!engine
<1>b. new \in BOOLEAN
  OBVIOUS
<1>2. d.e = e /\ d.new = new /\ d \in [e : K!Envelopes, new : BOOLEAN]
  BY <1>b
<1> HIDE DEF d
<1>3. K!TypeOK'
  <2>1. copies' \in [K!Envelopes -> 0..MaxCopies]
    BY <1>t, <1>1 DEF K!TypeOK
  <2>a. Cardinality({d}) = 1
    BY FS_Singleton
  <2>2. K!Cardinality(deciding') <= 1
    BY <1>1, <2>a, SameCount
  <2> QED BY <1>t, <1>1, <1>2, <2>1, <2>2 DEF K!TypeOK
<1>4. SoundSent' /\ Shown'
  BY <1>t, <1>1, <1>2 DEF SoundSent, Sound, Shown
<1>5. Within'
  <2> SUFFICES ASSUME NEW u \in Uses PROVE (kEmitted[u] + Cardinality(Emitting(u)) + Coming(u) <= Counted(u))'
    BY DEF Within
  <2>1. Emitting(u)' = Emitting(u) /\ kEmitted'[u] = kEmitted[u] /\ kEmitted[u] \in Nat /\ Cardinality(Emitting(u)) \in Nat
    BY <1>t, <1>1, EmittingFinite DEF Emitting, K!TypeOK
  <2>2. kEmitted[u] + Cardinality(Emitting(u)) <= Counted(u) /\ Counted(u) \in Nat
    <3>1. Coming(u) = 0
      BY <1>1 DEF Coming
    <3>2. Counted(u) \in Nat
      BY GoodsFinite DEF Counted
    <3> QED BY <1>t, <2>1, <3>1, <3>2 DEF Within
  <2>3. e = [of |-> e.of, use |-> e.use, n |-> e.n] /\ e.use \in Uses
    BY DEF K!Envelopes
  <2>4. K!Fires(e)' <=> K!Fires(e)
    BY <1>1 DEF K!Fires
  <2>5. Sound(e)
    BY <1>t, <1>1 DEF SoundSent
  <2>6. Counted(u) <= Counted(u)' /\ Counted(u)' \in Nat
    <3>1. Goods(u) \in SUBSET (Goods(u)')
      BY <1>1 DEF Goods
    <3>2. IsFiniteSet(Goods(u)') /\ Cardinality(Goods(u)') \in Nat /\ Cardinality(Goods(u)) \in Nat
      <4>1. IsFiniteSet(1..MaxSubmits) /\ Goods(u)' \in SUBSET (1..MaxSubmits)
        BY FS_Interval DEF Goods
      <4> QED BY <4>1, FS_Subset, FS_CardinalityType, GoodsFinite
    <3>3. Cardinality(Goods(u)) <= Cardinality(Goods(u)')
      BY <3>1, <3>2, FS_Subset
    <3> QED BY <1>1, <3>2, <3>3 DEF Counted
  <2>7. CASE K!Fires(e) /\ e.use = u /\ e \notin kDedup
    <3>1. kDedup' = kDedup \cup {e}
      BY <1>1, <2>7 DEF K!Keyed
    <3>2. CASE kind[u] \in K!HasForm
      <4>1. e.of = "good" /\ e.n \in 1..MaxSubmits
        <5>1. e.of = "good" /\ e.n \in 1..submits[u]
          BY <2>5, <2>7, <3>2 DEF K!Fires, Sound
        <5>2. submits[u] \in 0..MaxSubmits
          BY <1>t DEF K!TypeOK
        <5> QED BY <5>1, <5>2
      <4>2. Goods(u)' = Goods(u) \cup {e.n} /\ e.n \notin Goods(u)
        BY <2>3, <2>7, <3>1, <4>1 DEF Goods
      <4>3. Cardinality(Goods(u)') = Cardinality(Goods(u)) + 1
        BY <4>2, GoodsFinite, FS_AddElement
      <4>4. Counted(u)' = Counted(u) + 1
        BY <1>1, <3>2, <4>3 DEF Counted
      <4>5. Coming(u)' \in {0, 1}
        BY DEF Coming
      <4> QED BY <2>1, <2>2, <4>4, <4>5
    <3>3. CASE kind[u] \notin K!HasForm
      <4>1. e = [of |-> "use", use |-> u, n |-> 0]
        BY <2>3, <2>5, <2>7, <3>3 DEF K!Fires, Sound
      <4>2. Counted(u) = 0 /\ Counted(u)' = 1
        BY <1>1, <2>7, <3>1, <3>3, <4>1 DEF Counted
      <4>3. Coming(u)' \in {0, 1}
        BY DEF Coming
      <4> QED BY <2>1, <2>2, <4>2, <4>3
    <3> QED BY <3>2, <3>3
  <2>8. CASE ~(K!Fires(e) /\ e.use = u /\ e \notin kDedup)
    <3>1. Coming(u)' = 0
      BY <1>1, <1>2, <2>4, <2>8 DEF Coming, K!Keyed
    <3> QED BY <2>1, <2>2, <2>6, <3>1
  <2> QED BY <2>7, <2>8
<1> QED BY <1>t, <1>1, <1>3, <1>4, <1>5 DEF SocketInv

LEMMA AckStep == ASSUME SocketInv, NEW d \in deciding, NEW heard \in BOOLEAN, K!Ack(d, heard) PROVE SocketInv'
<1> USE SocketAssumption
<1>t. K!TypeOK /\ SoundSent /\ Shown /\ IsFiniteSet(works) /\ Within
  BY DEF SocketInv
<1>1. /\ deciding' = {} /\ works' = IF d.new THEN works \cup K!Work(d.e) ELSE works
      /\ pending' = IF heard THEN pending \ {d.e} ELSE pending
      /\ acked' = IF heard /\ K!Fires(d.e) THEN acked \cup {d.e.use} ELSE acked
      /\ modals' = IF heard /\ d.e.of = "good" THEN [modals EXCEPT ![d.e.use] = "closed"] ELSE modals
      /\ UNCHANGED <<copies, kDedup, forms, kind, buttons, clicks, submits, kEmitted, kLost, ran, signed, kRestarts>>
  BY DEF K!Ack, K!engine
<1> DEFINE e == d.e
<1>2. e \in K!Envelopes /\ d.new \in BOOLEAN /\ Sound(e) /\ e.use \in Uses
  BY <1>t DEF K!TypeOK, SoundSent, K!Envelopes
<1> HIDE DEF e
<1>4. \/ K!Fires(e) /\ K!Work(e) = {[do |-> "emit", of |-> e]}
      \/ ~K!Fires(e) /\ K!Work(e) = {}
      \/ ~K!Fires(e) /\ kind[e.use] \in K!HasForm
         /\ (K!Work(e) = {[do |-> "offer", of |-> e]} \/ K!Work(e) = {[do |-> "open", of |-> e]})
  <2>1. CASE K!Fires(e)
    BY <2>1 DEF K!Work
  <2>2. CASE ~K!Fires(e)
    <3>1. e.of \in {"use", "click"} => kind[e.use] \in K!HasForm
      BY <1>2, <2>2 DEF K!Fires, Sound
    <3>2. CASE e.of \in {"use", "click"}
      BY <2>2, <3>1, <3>2 DEF K!Work
    <3>3. CASE e.of \notin {"use", "click"}
      BY <2>2, <3>3 DEF K!Work
    <3> QED BY <3>2, <3>3
  <2> QED BY <2>1, <2>2
<1>a. \A w \in K!Work(e) :
        /\ w \in [do : {"emit", "offer", "open"}, of : K!Envelopes] /\ w.of = e
        /\ (w.do # "emit" => kind[e.use] \in K!HasForm) /\ (w.do = "emit" => K!Fires(e))
  BY <1>2, <1>4
<1>5. IsFiniteSet(works')
  <2>1. K!Work(e) = {} \/ \E w : K!Work(e) = {w}
    BY <1>4
  <2>2. IsFiniteSet(works \cup K!Work(e))
    <3>1. CASE K!Work(e) = {}
      BY <1>t, <3>1
    <3>2. CASE K!Work(e) # {}
      BY <1>t, <2>1, <3>2, FS_AddElement
    <3> QED BY <3>1, <3>2
  <2> QED BY <1>t, <1>1, <2>2 DEF e
<1>6. K!TypeOK'
  <2>1. modals' \in [Uses -> {"none", "open", "closed"}] /\ acked' \subseteq Uses
    BY <1>t, <1>1, <1>2 DEF K!TypeOK, e
  <2>2. works' \subseteq [do : {"emit", "offer", "open"}, of : K!Envelopes] /\ pending' \subseteq K!Envelopes
    BY <1>t, <1>1, <1>a DEF K!TypeOK, e
  <2>3. K!Cardinality(deciding') <= 1
    BY <1>1, SameCount, FS_EmptySet
  <2> QED BY <1>t, <1>1, <2>1, <2>2, <2>3 DEF K!TypeOK
<1>7. SoundSent'
  BY <1>t, <1>1 DEF SoundSent, Sound
<1>8. Shown'
  <2>1. \A u \in Uses : modals'[u] = "open" => modals[u] = "open"
    BY <1>t, <1>1 DEF K!TypeOK
  <2>2. \A w \in works' : w \in works \/ w \in K!Work(e)
    BY <1>1 DEF e
  <2>3. \A w \in works' : w.do \in {"offer", "open"} => kind[w.of.use] \in K!HasForm
    BY <1>t, <1>a, <2>2 DEF Shown
  <2> QED BY <1>t, <1>1, <2>1, <2>3 DEF Shown
<1>9. Within'
  <2> SUFFICES ASSUME NEW u \in Uses PROVE (kEmitted[u] + Cardinality(Emitting(u)) + Coming(u) <= Counted(u))'
    BY DEF Within
  <2>1. /\ kEmitted'[u] = kEmitted[u] /\ kEmitted[u] \in Nat /\ Cardinality(Emitting(u)) \in Nat
        /\ IsFiniteSet(Emitting(u))
    BY <1>t, <1>1, EmittingFinite DEF K!TypeOK
  <2>2. Counted(u)' = Counted(u) /\ Counted(u) \in Nat
    <3>1. Goods(u)' = Goods(u)
      BY <1>1 DEF Goods
    <3> QED BY <1>1, <3>1, GoodsFinite DEF Counted
  <2>3. Coming(u)' = 0 /\ Coming(u) \in {0, 1}
    BY <1>1 DEF Coming
  <2>4. kEmitted[u] + Cardinality(Emitting(u)) + Coming(u) <= Counted(u)
    BY <1>t DEF Within
  <2>5. CASE d.new /\ K!Fires(e) /\ e.use = u
    <3>1. Coming(u) = 1
      BY <2>5 DEF Coming, e
    <3> DEFINE w == [do |-> "emit", of |-> e]
    <3>2. works' = works \cup {w}
      BY <1>1, <1>4, <2>5 DEF e
    <3>3. w.do = "emit" /\ w.of.use = u
      BY <2>5
    <3> HIDE DEF w
    <3>4. Emitting(u)' = Emitting(u) \cup {w}
      BY <3>2, <3>3 DEF Emitting
    <3>5. Cardinality(Emitting(u)') \in {Cardinality(Emitting(u)), Cardinality(Emitting(u)) + 1}
      BY <2>1, <3>4, FS_AddElement
    <3> QED BY <2>1, <2>2, <2>3, <2>4, <3>1, <3>5
  <2>6. CASE ~(d.new /\ K!Fires(e) /\ e.use = u)
    <3>1. Emitting(u)' = Emitting(u)
      BY <1>1, <1>a, <2>6 DEF Emitting, e
    <3> QED BY <2>1, <2>2, <2>3, <2>4, <3>1
  <2> QED BY <2>5, <2>6
<1> QED BY <1>5, <1>6, <1>7, <1>8, <1>9 DEF SocketInv

LEMMA EmitStep == ASSUME SocketInv, NEW w \in works, K!Emit(w) PROVE SocketInv'
<1>t. K!TypeOK /\ SoundSent /\ Shown /\ IsFiniteSet(works) /\ Within
  BY DEF SocketInv
<1>1. /\ w.do = "emit" /\ works' = works \ {w} /\ kEmitted' = [kEmitted EXCEPT ![w.of.use] = @ + 1]
      /\ ran' \subseteq ran \cup {w.of.use}
      /\ UNCHANGED <<pending, copies, deciding, kDedup, forms, kind, buttons, clicks, modals, submits,
                     acked, kLost, kRestarts>>
  BY DEF K!Emit, K!people
<1>2. w.of.use \in Uses
  BY <1>t DEF K!TypeOK, K!Envelopes
<1>3. K!TypeOK'
  <2>1. kEmitted' \in [Uses -> Nat]
    BY <1>t, <1>1, <1>2 DEF K!TypeOK
  <2> QED BY <1>t, <1>1, <1>2, <2>1 DEF K!TypeOK
<1>4. SoundSent' /\ Shown'
  BY <1>t, <1>1 DEF SoundSent, Sound, Shown
<1>5. IsFiniteSet(works')
  BY <1>t, <1>1, FS_RemoveElement
<1>6. Within'
  <2> SUFFICES ASSUME NEW u \in Uses PROVE (kEmitted[u] + Cardinality(Emitting(u)) + Coming(u) <= Counted(u))'
    BY DEF Within
  <2>1. kEmitted[u] \in Nat /\ Cardinality(Emitting(u)) \in Nat /\ IsFiniteSet(Emitting(u))
    BY <1>t, EmittingFinite DEF K!TypeOK
  <2>2. Counted(u)' = Counted(u) /\ Coming(u)' = Coming(u)
    <3>1. \A e : K!Fires(e)' <=> K!Fires(e)
      BY <1>1 DEF K!Fires
    <3>2. Goods(u)' = Goods(u)
      BY <1>1 DEF Goods
    <3> QED BY <1>1, <3>1, <3>2 DEF Counted, Coming
  <2>3. kEmitted[u] + Cardinality(Emitting(u)) + Coming(u) <= Counted(u)
    BY <1>t DEF Within
  <2>4. CASE w.of.use = u
    <3>1. Emitting(u)' = Emitting(u) \ {w} /\ w \in Emitting(u) /\ kEmitted'[u] = kEmitted[u] + 1
      BY <1>t, <1>1, <2>4 DEF Emitting, K!TypeOK
    <3>2. Cardinality(Emitting(u)') = Cardinality(Emitting(u)) - 1
      BY <2>1, <3>1, FS_RemoveElement
    <3>3. kEmitted'[u] + Cardinality(Emitting(u)') = kEmitted[u] + Cardinality(Emitting(u))
      BY <2>1, <3>1, <3>2
    <3> QED BY <2>2, <2>3, <3>3
  <2>5. CASE w.of.use # u
    <3>1. Emitting(u)' = Emitting(u) /\ kEmitted'[u] = kEmitted[u]
      BY <1>t, <1>1, <2>5 DEF Emitting, K!TypeOK
    <3> QED BY <2>2, <2>3, <3>1
  <2> QED BY <2>4, <2>5
<1> QED BY <1>3, <1>4, <1>5, <1>6 DEF SocketInv

LEMMA FormStep == ASSUME SocketInv, NEW w \in works, NEW ok \in BOOLEAN, K!Offer(w, ok) \/ K!Open(w, ok) PROVE SocketInv'
<1>t. K!TypeOK /\ SoundSent /\ Shown /\ IsFiniteSet(works) /\ Within
  BY DEF SocketInv
<1>1. /\ w.do # "emit" /\ works' = works \ {w}
      /\ UNCHANGED <<pending, copies, deciding, kDedup, kind, clicks, submits, kEmitted, acked, kLost, ran, signed, kRestarts>>
  BY DEF K!Offer, K!Open, K!engine
<1>2. w.of.use \in Uses /\ kind[w.of.use] \in K!HasForm
  <2>1. w.do \in {"offer", "open"}
    BY DEF K!Offer, K!Open
  <2> QED BY <1>t, <2>1 DEF K!TypeOK, K!Envelopes, Shown
<1>3. /\ forms' \subseteq forms \cup {w.of.use} /\ buttons' \subseteq buttons \cup {w.of.use}
      /\ modals' = modals \/ modals' = [modals EXCEPT ![w.of.use] = "open"]
  BY DEF K!Offer, K!Open
<1>4. Within' /\ IsFiniteSet(works')
  BY <1>t, <1>1, WithinStays, FS_RemoveElement
<1>5. K!TypeOK'
  <2>1. modals' \in [Uses -> {"none", "open", "closed"}]
    BY <1>t, <1>3 DEF K!TypeOK
  <2> QED BY <1>t, <1>1, <1>2, <1>3, <2>1 DEF K!TypeOK
<1>6. SoundSent' /\ Shown'
  <2>1. \A u \in Uses : modals'[u] = "open" => modals[u] = "open" \/ u = w.of.use
    BY <1>t, <1>3 DEF K!TypeOK
  <2> QED BY <1>t, <1>1, <1>2, <1>3, <2>1 DEF SoundSent, Sound, Shown
<1> QED BY <1>4, <1>5, <1>6 DEF SocketInv

LEMMA RestartStep == ASSUME SocketInv, K!Restart PROVE SocketInv'
<1> USE SocketAssumption
<1>t. K!TypeOK /\ SoundSent /\ Shown
  BY DEF SocketInv
<1>1. /\ kRestarts < SocketRestarts /\ kRestarts' = kRestarts + 1
      /\ deciding' = {} /\ works' = {} /\ kDedup' = {} /\ forms' = {} /\ kEmitted' = [u \in Uses |-> 0]
      /\ kLost' = kLost \cup {w.of.use : w \in works}
      /\ UNCHANGED <<pending, copies, kind, buttons, clicks, modals, submits, acked, ran, signed>>
  BY DEF K!Restart, K!people, K!engine
<1>2. kLost' \subseteq Uses
  BY <1>t, <1>1 DEF K!TypeOK, K!Envelopes
<1>3. K!Cardinality(deciding') <= 1 /\ IsFiniteSet(works')
  BY <1>1, SameCount, FS_EmptySet
<1>4. kRestarts' \in 0..SocketRestarts /\ kEmitted' \in [Uses -> Nat]
  BY <1>t, <1>1 DEF K!TypeOK
<1>5. K!TypeOK'
  BY <1>t, <1>1, <1>2, <1>3, <1>4 DEF K!TypeOK
<1>6. SoundSent' /\ Shown'
  BY <1>t, <1>1 DEF SoundSent, Sound, Shown
<1>7. Within'
  <2> SUFFICES ASSUME NEW u \in Uses PROVE (kEmitted[u] + Cardinality(Emitting(u)) + Coming(u) <= Counted(u))'
    BY DEF Within
  <2>1. Emitting(u)' = {} /\ Coming(u)' = 0 /\ kEmitted'[u] = 0 /\ Goods(u)' = {}
    BY <1>1 DEF Emitting, Coming, Goods
  <2>2. Cardinality(Goods(u)') = 0 /\ Cardinality(Emitting(u)') = 0
    BY <2>1, FS_EmptySet
  <2>3. Counted(u)' \in Nat
    BY <2>2 DEF Counted
  <2> QED BY <2>1, <2>2, <2>3
<1> QED BY <1>3, <1>5, <1>6, <1>7 DEF SocketInv

LEMMA StepSocket == ASSUME SocketInv, K!Next \/ UNCHANGED K!vars PROVE SocketInv'
<1>1. CASE UNCHANGED K!vars
  <2>1. UNCHANGED <<pending, copies, deciding, works, kDedup, forms, kind, buttons, clicks, modals, submits,
                    kEmitted, acked, kLost, ran, signed, kRestarts>>
    BY <1>1 DEF K!vars, K!socket, K!people, K!engine
  <2>2. Within'
    BY <2>1, WithinStays DEF SocketInv
  <2> QED BY <2>1, <2>2 DEF SocketInv, K!TypeOK, SoundSent, Sound, Shown
<1> QED BY <1>1, PeopleStep, GiveUpStep, DecideStep, AckStep, EmitStep, FormStep, RestartStep DEF K!Next

LEMMA SocketEmitsOnce == ASSUME SocketInv PROVE K!EmittedOnce
<1> SUFFICES ASSUME NEW u \in Uses PROVE kEmitted[u] <= IF kind[u] \in K!HasForm THEN submits[u] ELSE 1
  BY DEF K!EmittedOnce
<1>t. K!TypeOK /\ SoundSent /\ IsFiniteSet(works) /\ Within
  BY DEF SocketInv
<1>1. kEmitted[u] \in Nat /\ submits[u] \in Nat /\ Cardinality(Emitting(u)) \in Nat /\ Coming(u) \in {0, 1}
  BY <1>t, EmittingFinite, SocketAssumption DEF K!TypeOK, Coming
<1>2. Counted(u) \in Nat
  BY GoodsFinite DEF Counted
<1>3. kEmitted[u] <= Counted(u)
  BY <1>t, <1>1, <1>2 DEF Within
<1>4. CASE kind[u] \in K!HasForm
  <2>1. Goods(u) \subseteq 1..submits[u]
    <3> SUFFICES ASSUME NEW k \in 1..MaxSubmits, [of |-> "good", use |-> u, n |-> k] \in kDedup PROVE k \in 1..submits[u]
      BY DEF Goods
    <3>1. Sound([of |-> "good", use |-> u, n |-> k])
      BY <1>t DEF SoundSent
    <3> QED BY <3>1 DEF Sound
  <2>2. IsFiniteSet(1..submits[u]) /\ Cardinality(1..submits[u]) = submits[u]
    <3>1. 1 \in Int /\ submits[u] \in Int
      BY <1>1
    <3>2. IsFiniteSet(1..submits[u]) /\ Cardinality(1..submits[u]) = IF 1 > submits[u] THEN 0 ELSE submits[u] - 1 + 1
      BY <3>1, FS_Interval
    <3> QED BY <1>1, <3>2
  <2>3. Cardinality(Goods(u)) <= submits[u]
    BY <2>1, <2>2, FS_Subset
  <2> QED BY <1>1, <1>3, <1>4, <2>3, GoodsFinite DEF Counted
<1>5. CASE kind[u] \notin K!HasForm
  BY <1>1, <1>3, <1>5 DEF Counted
<1> QED BY <1>4, <1>5

-----------------------------------------------------------------------------
(* What each keeps, a behaviour of all keeps. *)

LEMMA MailInvHolds == SourcesSpec => []MailInv
<1>1. SourcesInit => MailInv
  BY InitMail DEF SourcesInit
<1>2. MailInv /\ [SourcesNext]_all => MailInv'
  BY SourcesStep, StepMail
<1> QED BY <1>1, <1>2, PTL DEF SourcesSpec

LEMMA GatewayInvHolds == SourcesSpec => []GatewayInv
<1>1. SourcesInit => GatewayInv
  BY InitGateway DEF SourcesInit
<1>2. GatewayInv /\ [SourcesNext]_all => GatewayInv'
  BY SourcesStep, StepGateway
<1> QED BY <1>1, <1>2, PTL DEF SourcesSpec

LEMMA PollsInvHolds == SourcesSpec => []PollsInv
<1>1. SourcesInit => PollsInv
  BY InitPolls DEF SourcesInit
<1>2. PollsInv /\ [SourcesNext]_all => PollsInv'
  BY SourcesStep, StepPolls
<1> QED BY <1>1, <1>2, PTL DEF SourcesSpec

LEMMA FollowInvHolds == SourcesSpec => []FollowInv
<1>1. SourcesInit => FollowInv
  BY InitFollow DEF SourcesInit
<1>2. FollowInv /\ [SourcesNext]_all => FollowInv'
  BY SourcesStep, StepFollow
<1> QED BY <1>1, <1>2, PTL DEF SourcesSpec

LEMMA SocketInvHolds == SourcesSpec => []SocketInv
<1>1. SourcesInit => SocketInv
  BY InitSocket DEF SourcesInit
<1>2. SocketInv /\ [SourcesNext]_all => SocketInv'
  BY SourcesStep, StepSocket
<1> QED BY <1>1, <1>2, PTL DEF SourcesSpec

\* Whatever is read, brought or sent again, and whatever ends in between, a source emits once
\* what it should emit once: a mail for each process, a reply ever, a status again only after
\* Max others, a use of the bot once for each time that it was submitted well, and what is
\* published in its order (MailPoll, Gateway, Polls, SlackSocket, Subscription).
THEOREM EmittedOnceHolds == SourcesSpec => []EmittedOnce
<1>1. MailInv => M!EmittedOnce
  BY DEF MailInv
<1>2. GatewayInv => G!EmittedOnce
  BY DEF GatewayInv
<1>3. PollsInv => P!EmittedOnce
  BY DEF PollsInv
<1>4. FollowInv => U!InOrder
  BY DEF FollowInv
<1>5. SocketInv => K!EmittedOnce
  BY SocketEmitsOnce
<1> QED BY <1>1, <1>2, <1>3, <1>4, <1>5, MailInvHolds, GatewayInvHolds, PollsInvHolds, FollowInvHolds,
           SocketInvHolds, PTL DEF EmittedOnce

\* The variables of all the sources keep their types.
THEOREM SourcesTyped == SourcesSpec => []AllTyped
<1>1. ASSUME CadenceInv, QuietInv, InstanceInv, MailInv, GatewayInv, PollsInv, QueueInv, SyncInv, FollowInv, SocketInv
      PROVE  AllTyped
  <2>1. TypeOK /\ D!TypeOK /\ S!TypeOK /\ M!TypeOK /\ G!TypeOK
    BY <1>1 DEF CadenceInv, QuietInv, InstanceInv, MailInv, GatewayInv
  <2>2. P!TypeOK /\ Q!TypeOK /\ Y!TypeOK /\ U!TypeOK /\ K!TypeOK
    BY <1>1 DEF PollsInv, QueueInv, SyncInv, FollowInv, SocketInv
  <2> QED BY <2>1, <2>2 DEF AllTyped
<1> QED BY <1>1, CadenceInvHolds, QuietInvHolds, InstanceInvHolds, MailInvHolds, GatewayInvHolds,
           PollsInvHolds, QueueInvHolds, SyncInvHolds, FollowInvHolds, SocketInvHolds, PTL
=============================================================================

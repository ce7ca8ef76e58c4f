------------------------------ MODULE Webhooks -------------------------------
(***************************************************************************)
(* The connectors that take a service's webhooks (StartSource of each).    *)
(* All have one handler, which the HTTP listener and the relay both call:  *)
(* verify the copy, make an event of it, drop it if its key is among the   *)
(* last Max that were let through, emit it.  What differs is the key.      *)
(*                                                                         *)
(* A key holds some of: the subject (an alert, an issue, a download), its  *)
(* status (or the action on it), the moment (a number, an id or a time     *)
(* that the service gives each occurrence), and the second at which the    *)
(* copy was received.  It has other parts when the payload leaves out the  *)
(* field that names the subject, or the moment.                            *)
(*                                                                         *)
(* A service sends an occurrence several times, in any order with others;  *)
(* a copy may be spoiled on the way, so that it does not verify.  What is  *)
(* remembered is lost with the process.  With allow_unsigned set a spoiled *)
(* copy is as good as any.  A delivery that holds several events is as     *)
(* many deliveries here.                                                   *)
(***************************************************************************)
EXTENDS Integers, Sequences

CONSTANTS
    Max,         \* how many keys are remembered (2048 or 4096)
    MaxSent,     \* bound on the occurrences
    MaxCopies,   \* bound on the copies of each that are received
    MaxSeconds,  \* bound on the clock
    MaxBoots     \* bound on the restarts

\* Parts of a key when the payload is whole, and when it is not.
Keyed(whole, partial) == [whole |-> whole, partial |-> partial]
Always(parts)         == Keyed(parts, parts)
Thing   == {"subject"}
Change  == {"subject", "status"}
Moment  == {"moment"}
Nothing == {}
Ignored == {"ignored"}   \* no event is made
Unkeyed == {"unkeyed"}   \* the event is not deduplicated

Alertmanager       == Keyed(Change, Ignored)
AwsSns             == Keyed(Moment, Ignored)
Datadog            == Keyed(Change, Moment \cup {"status"})
GiteaPush          == Always(Change)
GiteaPullRequest   == Always(Change)
GiteaIssues        == Always(Change)
GiteaComment       == Keyed(Thing, Change)
GitlabPush         == Always(Change)
GitlabMergeRequest == Always(Change)
GitlabPipeline     == Always(Change)
GitlabIssue        == Always(Change)
GitlabNote         == Always(Thing)
Healthchecks       == Keyed(Change, {"status"})
HomeAssistant      == Keyed(Moment, Unkeyed)
Ifttt              == Keyed(Moment, Unkeyed)
JiraIssue          == Always(Change \cup Moment)
JiraComment        == Always(Change \cup Moment)
LinearIssue        == Keyed(Change, Ignored)
LinearComment      == Keyed(Change, Ignored)
LinearProject      == Keyed(Change, Ignored)
Lidarr             == Keyed(Change, Change \cup {"second"})
PagerDuty          == Keyed(Change, {"status"})
Plex               == Always(Change \cup {"second"})
Prowlarr           == Keyed(Change, {"status", "second"})
Radarr             == Keyed(Change, Change \cup {"second"})
Sentry             == Keyed(Change, {"status"})
Sonarr             == Keyed(Change, Change \cup {"second"})
Tautulli           == Keyed(Change, Unkeyed)
Telegram           == Always(Moment)
TwilioSms          == Keyed(Moment, Nothing)
TwilioCall         == Always(Thing)
UptimeKuma         == Keyed(Change \cup Moment, Nothing)
UptimeRobot        == Keyed(Change \cup Moment, Change)
Wiz                == Keyed(Change, Ignored)
Zapier             == Keyed(Moment, Unkeyed)

\* What each connector makes of the payloads that it knows.
Rules ==
    [alertmanager |-> {Alertmanager}, aws_sns |-> {AwsSns}, datadog |-> {Datadog},
     gitea |-> {GiteaPush, GiteaPullRequest, GiteaIssues, GiteaComment},
     gitlab |-> {GitlabPush, GitlabMergeRequest, GitlabPipeline, GitlabIssue, GitlabNote},
     healthchecks |-> {Healthchecks}, homeassistant |-> {HomeAssistant}, ifttt |-> {Ifttt},
     jira |-> {JiraIssue, JiraComment}, linear |-> {LinearIssue, LinearComment, LinearProject},
     lidarr |-> {Lidarr}, pagerduty |-> {PagerDuty}, plex |-> {Plex}, prowlarr |-> {Prowlarr},
     radarr |-> {Radarr}, sentry |-> {Sentry}, sonarr |-> {Sonarr}, tautulli |-> {Tautulli},
     telegram |-> {Telegram}, twilio |-> {TwilioSms, TwilioCall}, uptimekuma |-> {UptimeKuma},
     uptimerobot |-> {UptimeRobot}, wiz |-> {Wiz}, zapier |-> {Zapier}]

Connectors == DOMAIN Rules

VARIABLES
    rule,      \* the connector's key, for the events that are followed
    sent,      \* what happened, in order: occurrence i is sent[i], and i its moment
    copies,    \* how many copies of each were received
    second,    \* the clock
    accepted,  \* the keys let through since the process began
    held,      \* the occurrences let through and not emitted yet
    runs,      \* history: how often each was emitted since then
    told,      \* history: those that were let through since then
    dropped,   \* history: those of which a copy was dropped as seen before, since then
    boots

vars == <<rule, sent, copies, second, accepted, held, runs, told, dropped, boots>>

Occurrences == [subject : 1..2, status : 1..2, whole : BOOLEAN]
Sent        == 1..MaxSent

TypeOK ==
    /\ rule \in UNION {Rules[c] : c \in Connectors}
    /\ Len(sent) <= MaxSent /\ \A i \in DOMAIN sent : sent[i] \in Occurrences
    /\ copies \in [Sent -> 0..MaxCopies] /\ second \in 0..MaxSeconds
    /\ held \in [Sent -> 0..MaxCopies] /\ runs \in [Sent -> 0..MaxCopies]
    /\ told \subseteq Sent /\ dropped \subseteq Sent /\ boots \in 0..MaxBoots

Init ==
    /\ \E c \in Connectors : rule \in Rules[c]
    /\ sent = <<>> /\ copies = [i \in Sent |-> 0] /\ second = 0
    /\ accepted = <<>> /\ held = [i \in Sent |-> 0] /\ runs = [i \in Sent |-> 0]
    /\ told = {} /\ dropped = {} /\ boots = 0

\* The dedup is a window over what it lets through.
W == INSTANCE Window WITH Ids <- {}

Parts(i) == IF sent[i].whole THEN rule.whole ELSE rule.partial
PartOf(i, part) == CASE part = "subject" -> sent[i].subject
                     [] part = "status"  -> sent[i].status
                     [] part = "moment"  -> i
                     [] part = "second"  -> second
KeyOf(i) == [part \in Parts(i) |-> PartOf(i, part)]

\* The names of the subjects and of the statuses do not matter: the first is 1.
Happen(o) == /\ Len(sent) < MaxSent /\ sent' = Append(sent, o)
             /\ sent = <<>> => o.subject = 1 /\ o.status = 1
             /\ UNCHANGED <<rule, copies, second, accepted, held, runs, told, dropped, boots>>

Let(i) == /\ held' = [held EXCEPT ![i] = @ + 1]
          /\ told' = told \cup {i} /\ dropped' = dropped

\* Seeded bug: the key is looked up and not remembered.
DeduplicateOnly(i) ==
    \/ KeyOf(i) \notin W!Recent /\ Let(i) /\ UNCHANGED accepted
    \/ /\ KeyOf(i) \in W!Recent /\ dropped' = dropped \cup {i}
       /\ UNCHANGED <<accepted, held, told>>

Deduplicate(i) ==
    \/ W!Accept(KeyOf(i)) /\ Let(i)
    \/ /\ KeyOf(i) \in W!Recent /\ dropped' = dropped \cup {i}
       /\ UNCHANGED <<accepted, held, told>>

\* Seeded bug: a copy is remembered before it is verified.
ReceiveFirst(i, good) ==
    /\ i \in DOMAIN sent /\ copies[i] < MaxCopies
    /\ copies' = [copies EXCEPT ![i] = @ + 1]
    /\ CASE Parts(i) = Ignored -> UNCHANGED <<accepted, held, told, dropped>>
         [] Parts(i) = Unkeyed -> Let(i) /\ UNCHANGED accepted
         [] OTHER -> IF good THEN Deduplicate(i)
                     ELSE /\ UNCHANGED <<held, told, dropped>>
                          /\ W!Accept(KeyOf(i)) \/ UNCHANGED accepted
    /\ UNCHANGED <<rule, sent, second, runs, boots>>

\* A copy is received.
Receive(i, good) ==
    /\ i \in DOMAIN sent /\ copies[i] < MaxCopies
    /\ copies' = [copies EXCEPT ![i] = @ + 1]
    /\ CASE ~good \/ Parts(i) = Ignored -> UNCHANGED <<accepted, held, told, dropped>>
         [] good /\ Parts(i) = Unkeyed  -> Let(i) /\ UNCHANGED accepted
         [] OTHER -> Deduplicate(i)
    /\ UNCHANGED <<rule, sent, second, runs, boots>>

\* An emit that fails is not tried again, and nothing is forgotten.
Emit(i, ok) == /\ held[i] > 0 /\ held' = [held EXCEPT ![i] = @ - 1]
               /\ runs' = IF ok THEN [runs EXCEPT ![i] = @ + 1] ELSE runs
               /\ UNCHANGED <<rule, sent, copies, second, accepted, told, dropped, boots>>

\* The clock matters to keys that hold the second.
Tick == /\ second < MaxSeconds /\ second' = second + 1
        /\ "second" \in rule.whole \cup rule.partial
        /\ UNCHANGED <<rule, sent, copies, accepted, held, runs, told, dropped, boots>>

Restart == /\ boots < MaxBoots /\ boots' = boots + 1
           /\ accepted' = <<>> /\ held' = [i \in Sent |-> 0] /\ runs' = [i \in Sent |-> 0]
           /\ told' = {} /\ dropped' = {}
           /\ UNCHANGED <<rule, sent, copies, second>>

Next == \/ \E o \in Occurrences : Happen(o)
        \/ \E i \in Sent : \E good \in BOOLEAN : Receive(i, good)
        \/ \E i \in Sent : \E ok \in BOOLEAN : Emit(i, ok)
        \/ Tick \/ Restart
Spec == Init /\ [][Next]_vars

-----------------------------------------------------------------------------
\* A process emits an occurrence once, whichever of listener and relay brought how many
\* copies of it, and again only after Max others, unless its key holds the second.
EmittedOnce ==
    \A i \in DOMAIN sent :
        runs[i] > 1 /\ Parts(i) \cap (Unkeyed \cup {"second"}) = {} =>
            \E a, b \in DOMAIN accepted :
                accepted[a] = KeyOf(i) /\ accepted[b] = KeyOf(i) /\ b - a > Max

\* What is dropped as seen before is a copy of what was told; or, where the key has no moment,
\* of an occurrence that the key takes for one that was: of the same subject, and the same
\* status where the key has it.  So a merge request updated again, a pull request pushed to
\* again and an alert that fires again once it resolved are dropped, though nobody was told
\* of them (the dedup keys of gitlab, gitea, alertmanager).  But none is for an occurrence
\* that differs in what the key holds, nor for a copy that does not verify.
Alike(i, j) == CASE "moment" \in Parts(i) -> i = j
                 [] "status" \in Parts(i) -> /\ sent[i].subject = sent[j].subject
                                             /\ sent[i].status = sent[j].status
                 [] OTHER -> sent[i].subject = sent[j].subject
DropsAreLikeTold == \A i \in dropped : sent[i].whole => \E j \in told : Alike(i, j)

\* "streams a normalized event per delivery" (docs/connectors/gitlab.md, gitea.md): of what
\* is dropped an event was made, from another copy of it.
EventPerDelivery == \A i \in dropped : sent[i].whole => i \in told
=============================================================================

# A verification project for conductor-plugins

conductor-plugins is the plugin catalogue of the conductor daemon: some eighty
*connectors* (each a Go program the daemon runs as a subprocess and talks to over
RPC), *code engines*, agent *runtimes*, and the kits they share under
`src/internal`. A connector offers verbs (request and reply) and often a *source*:
a loop or a listener that turns what a service says into events, which the daemon's
engine dispatches as runs. The sources, the GitHub one above all, and the exposure
kit hold the concurrent state of this repository, and they are what is modelled
here. Most verbs are one HTTP request or one command, with no state between two calls.

Every module names the files it is translated from, and `PROJECT.json` maps each
definition to its lines. The daemon itself (the engine, its marks, its RPC host) is
not in this repository; where a property needs it, it is modelled as the code
here uses it and its definitions are marked external.

## Inventory

### internal/githubkit/ghsource: the GitHub source

| part | state | operations | hard behaviour | what makes it correct |
|---|---|---|---|---|
| review folding (`reviewfold.go`, `feedback.go`, review half of `events.go`, `sweep.go`) | `reviewCache.info`, `reviewCache.claims` under one mutex; the engine's marks | one goroutine per delivery: facts, claimed?, list comments, claim, fold, emit; the sweep's recovery of reviews | check, read over the network, then claim; claims expire and die with the process; reads trail webhooks or fail; reviews submitted while the PR is closed | one event per review; no comment run twice; the cursor passes no uncovered review; every review is covered in the end |
| delivery (`smee.go` deliver, handleSmeeData, deliveryDedup; `http.go`) | the ring of delivery ids | the smee stream and the HTTP listener feed one handler, which deduplicates, verifies and spawns | the same delivery on both transports, redelivered, forged or re-serialised; the ring full | a delivery runs at most once while the ring remembers it; nothing unverified runs; a delivery with a valid copy runs |
| stream (`smee.go` Start, runSmee, streamSmee) | the connection, its backoff | connect, reconnect with backoff, nudge the sweep | silence for 75 s, nudges coalescing in a channel of one | a reconnect is followed by a sweep; the stream is retried for ever |
| sweep cadence (`sweep.go` sweepLoop, fixedSweepLoop, backoffInterval, resetTimer; `source.go` SweepNow) | a timer, the interval, the renew channel | tick, renew, sweep, SweepNow | a renew racing the tick it resets, at the interval's two bounds | a sweep follows every nudge; the interval stays within its bounds |
| clients and identity (`source.go` ensureClients, discoverSelf, discoverSelfLoop; `app.go` installationToken) | the App and REST clients, the identity set, the token cache | lazy build under clientMu, discovery with retries, token mint | two callers build at once; a token minted twice | built once and never replaced; a live token is not replaced by an older one |
| other triggers (`events.go` triggersFor and its handlers; `sweep.go` sweepRepo; `filter.go`, `revert.go`, `force.go`) | none; the engine's marks | payload to triggers, each handler reading the request as it is by then; the sweep lists, emits, reads again, emits | deliveries late, lost and out of order; the request moves between the list and the read | what runs was true of its head; what lasts is run |
| stuck checks (`sweep.go` stuckLoop, stuckPass, sweepStuckChecks) | a timer | poll each repository, emit on its triggers | several triggers on one repository, each with its own `stuck_after` | a run that stays is told on every trigger |
| REST reads (`rest.go`) | none | reads | - | I/O |

### internal/githubkit: the GitHub verbs

| part | state | operations | hard behaviour | what makes it correct |
|---|---|---|---|---|
| read cache (`http.go` cachedGet, storeCache, send, invalidateCache) | bodies with their ETag and age, under a mutex never held over a request | cached and conditional reads, writes that empty the cache, one wait for a rate limit | a read asked before a write and answered after it | a read that begins after a write sees it |
| `apply_diff` (`applydiff.go`) | the branch on GitHub | read the head, apply the hunks, write the commit | others push, reset and delete meanwhile; a lost answer and a second call | the diff is on the branch once |
| `delete_branch` (`deletebranch.go`) | the branch on GitHub | read, compare with what is expected, delete | a push between the read and the delete | nothing unseen is taken away |
| the other verbs (`invoke.go` and its siblings) | none | one request or one read and one write | - | I/O |

`ghplugin` declares and dispatches the verbs and holds the subprocess's source
instances. `ghfake` is a test double of GitHub.

### internal/exposurekit, internal/relay and the exposure connectors

| part | state | operations | hard behaviour | what makes it correct |
|---|---|---|---|---|
| `exposurekit.Leases` | handle to close function, per instance, under a mutex | AddCapped, Remove, Release, StopInstance, ReleaseAll | closers run outside the lock, racing a process that exits and an Add that comes late | a lease is closed at most once; the table never exceeds its cap; what is released is gone |
| `exposurekit.RunAndScan`, `ProcessReaper` | the process, scanner goroutines, `exited` | start, scan for the URL, time out, kill, reap | the URL racing the timeout and the exit; a kill after the pid was reaped | the process is dead or owned by the caller; the stop leaves no helper |
| `relay` | the stream, its backoff | connect, replay to the handler, reconnect | a peer that goes silent; what comes while nothing is connected | it comes back for ever; the order is kept |
| `connectors/smee`, `ngrok`, `cloudflared`, `localxpose`, `sshtunnel` | leases, persisted channel | open, close, stop | process exit during open | as Leases |
| `connectors/tailscale` funnel | reference count per mapping | funnel_open, funnel_close | the last close of a mapping someone else had made | a mapping is off iff nobody holds it |

### Sources in other connectors

| connector | state | hard behaviour | what makes it correct |
|---|---|---|---|
| email (IMAP) | bounded set of seen message ids | fetch, remember, emit, mark seen; any may fail | no mail emitted twice; none lost |
| aws-sqs | the queue's visibility | receive, emit, delete, the timeout in between | at least once; deleted only when told |
| matrix | `since` token, seen set | sync, advance, emit; first sync emits nothing; an answer that leaves some out | at most once; nothing lost that was sent to it |
| discord | gateway sequence, session | hello, identify, resume | resume continues where the session stopped |
| slack | instance map; dedup, buttons and modals of the Socket Mode connection | acknowledge before the work, copies, stop against start | one pump per instance; an envelope acts once, and what is acknowledged is done |
| asana | handshake secrets, dedup ring | handshakes at once, lost replies, acknowledge before the work | one handshake installs a secret; every event of a batch emitted, once while its key is remembered |
| fswatch | debounce timers, watch index | timer firing against Reset | a burst fires once, with its last path |
| ntfy, postgres, redis, mqtt, relay | a subscription, a backoff | drops, refusals, a silent peer, messages kept or brought again | order kept, nothing twice; the subscription comes back |
| proxmox, truenas, grafana, netdata, smart | last-seen keys, bounded | things change during a pass; reads fail | a thing is told once, and told if it lasts |
| gitlab, gitea, jira, linear, sentry, pagerduty, alertmanager, the *arr connectors, plex, twilio, zapier, wiz, ... (24) | a bounded set of keys | one occurrence by listener and relay, retried or spoiled on one way | told once; dropped only if told |
| pihole, qbittorrent, nginx-proxy-manager, unifi, synology, keycloak | a session that calls share | several calls refused at once | a call survives the end of its session; no login storm |

The remaining connectors (docker, kubernetes, helm, terraform, git, ffmpeg, xero, ...)
run one command or one request per call and keep nothing between calls that is not a
session of the last line.

### Engines, runtimes, the rest

`engines/*` evaluate one piece of code per call in a sandbox; `internal/enginekit`
shares their loading and outputs. `runtimes/paseo` and `runtimes/jev` drive an
agent process. `internal/awskit` signs requests, `internal/rpctest` is the test
harness, `e2e` and `scripts` are tests and release tooling.

## The modules

Reading order is also the order of importance. A definition carries the name the
code gives it wherever TLA+ allows; what is only in the model is marked *history*
where the variables are declared. Definitions whose comment begins with *Seeded
bug* are not part of a specification: each changes one definition the way a
plausible mistake in the code would, and `PROJECT.json` says which property finds
it.

### ReviewFold: one review, one event

Models `ghsource/reviewfold.go` with the parts of `events.go`, `feedback.go` and
`sweep.go` that feed it, for one pull request of the operator's.

| in the model | in the code |
|---|---|
| `info`, `claims`, `Put`, `Claim` | `reviewCache` and its methods: the hour, the full table, which entries a full table drops |
| `Receive`, `List`, `Decide`, `Fold`, `Emit` | a delivery's goroutine from the handler to the engine, one action between two reads or locks: facts and first check, the listing of the comments, the claim, the fold, the emit |
| `SweepRead` ... `SweepDone` | the sweep's recovery: the fold of what is outstanding, missed comments, reviews on their body alone. `first` is the first listed trigger being enabled (`actionFor`), `CRConfigured` any being so (`wouldEmit`); `aged`, of which `Tick` makes a review where `Days` is set, is what is older than the recovery window of 24 hours |
| `NewComment`, `ReviewFoldOf`, `SweepFoldOf` | what event comes of a review, which others it carries, and the mark it moves |
| `Restart`, `Tick`, `CloseOrReopen` | the process dies with its cache; time passes; the pull request is closed and opened |
| `Submit`, `Lose`, `Show`, `Address`, `marks`, `runs` | GitHub, the channel, the operator and the engine: external |

The step between *claimed?* and *claim* is where this component is hard: the
listing is a network read, so every other task of the review may pass in between.
It is a step of its own here for that reason.

### Delivery and Window: a delivery runs once

`Delivery` is `deliver` and `deliveryDedup` of `ghsource/smee.go` with the two
transports that call it: the stream's goroutine and one per POST
(`http.go`). A handler deduplicates (one step, under the mutex of the set),
verifies and emits, each its own step. A copy that came over the channel may have
been re-serialised there. `Window` is the abstract promise of a bounded set of
recently seen ids, and `Delivery` implements it with
`accepted <- added`: `IsWindow` is checked and proved. That the code's `seen`
equals the abstract window is part of it, and is what catches a ring and a set
that forget different ids.

### SweepCadence: when the sweep runs

`sweepLoop`, `fixedSweepLoop`, the interval functions and `resetTimer` of
`sweep.go`, the reconnects of `smee.go` and the late discovery of the login in
`source.go`, as one specification of what an event missed in a gap can rely on. The
channel of one place in which nudges coalesce is `renew`; a Go timer is `left` and
`fired`, so that a tick that is in the channel and not yet taken is a state.

What a sweep does is ReviewFold's. The composition is by that interface: here a
sweep recovers what was missed when it starts, or fails.

`sweep.interval` below the one-minute floor drags the cadence below the floor:
`sweepBounds` takes the lesser of the two (`sweep.go:77`), though `sweepFloor`
(`sweep.go:56`) is called the hard minimum for any cadence. That no wait is below the floor
is therefore said, in `CadenceFollowsCalm`, where `SweepFloor <= Ceiling`, and the run keeps
to it.

### Triggers and StuckChecks: the other events of a pull request

`Triggers` follows one request that GitHub changes (pushes, checks, reviews asked for,
draft and ready, closed and reopened, a base that moves, a merge state that is computed
late) and one configured kind of event. A delivery carries what the request was; its handler
(`Handle`) reads the request as it is when it gets to it (`Named`: one of `ready_for_review` may
leave out who was asked, and when it names nobody that is read too, which may fail); what it makes is emitted later
still (`Deliver`), and `_closed` makes the engine forget. The sweep is three steps
(`Pull`, `List`, `SweepItem`), since the request may change between its list and its
read. `StuckChecks` is the poller of runs that do not end, over repositories with several
triggers each.

### ReadCache and Branch: the verbs of GitHub

`ReadCache` is the client's cache of GETs: a look, a request, and a store are three steps, as
the lock is not held while GitHub is asked; a write is two. `need` records the newest
write that was done before a read began, which is what the read owes its caller.
`Branch` is `apply_diff` and `delete_branch` on one branch that other people also
write: each verb's read and write are steps, an answer may be lost, and the workflow
may call again. A commit is what it does to the lines of the diff, so that hunks need
no text.

### Sessions: one login, many calls

The shape that six connectors share, with the three ways in which they lock it as
`style`. It stands beside the GitHub modules in `GitHub` only to be checked with them.

### Exposure, Funnel, AsanaHook: what is reachable from outside

`Exposure` is `exposurekit` seen from a tunnel connector: `RunAndScan` starts a
process group and waits for the URL, `ProcessReaper` reaps and kills, `Leases`
records, and `close`, `plugin.stop` and the end of `main` race each other to release.
The stop is three steps (kill the group, cancel, wait for the reaper), as it takes
no lock over them. `Reap` and `Record` are two steps because `Wait` takes the mutex
only once the process has been reaped.

`Funnel` is the reference count of the one mapping on port 443 that all
`funnel_open` leases share, with the box's configuration as external state. That a
lease's stop runs once is Exposure's `OneStopper`; `Funnel` uses it.

`AsanaHook` is the webhook of asana: the handshake's window, the secrets, the batch
that is acknowledged before a goroutine works on it, and the ring of the last keys that were
let through (4096 in the code, `DedupMax` here; `Window` again).

### Webhooks: the handler of twenty-four connectors

Verify, make an event, deduplicate, emit: what differs is the key, and `Rules` has
each connector's, by the parts that the code puts into it (subject, status, moment, the
second of receipt), also for payloads that lack a field. `DropsAreLikeTold` then says what
each key really buys: an occurrence is dropped only if it was told, or if the key cannot
tell it from one that was. That is less than the documentation of some of them says, which is
the finding of `dl_drops`. It shares `Deliveries` with Delivery, whose handler it mirrors.

### The loops of the other sources

| module | code | state and steps |
|---|---|---|
| `Debounce` | `fswatch/watch.go`, `main.go` | the timer, the goroutines it has spawned and that have not read yet, what they have read and not emitted |
| `SlackInstances` | `slack/socket.go` `StartSource`, `Start`, `Stop` | the tables of sources and cancels, and every start of an instance that has not ended |
| `SlackSocket` | `slack/socket.go` `pumpSocket`, `events.go`, `interactive.go` | what Slack holds unacknowledged, the read loop's envelope, the goroutines' work, buttons and modals |
| `MailPoll` | `email/main.go` `StartSource`, `pollIMAP` | the goroutine's place between search, fetch, emit and mark; the dedup of message ids; the server's flags |
| `Gateway` | `discord/main.go` `gatewayState`, `handleFrame`, `runGatewayOnce` | session id and sequence number of the client, the gateway's session and log, the connection |
| `Polls` | `StartSource` of proxmox, truenas, grafana, netdata, smart | what is raised, the list as it was read, the keys that were let through; `Polled` has what differs |
| `Queue` | `aws-sqs/main.go` `StartSource` | where each message is on the queue, the batch, the one being deleted |
| `Sync` | `matrix/main.go` `StartSource`, `processSync` | the timeline, the token, what was seen |
| `Subscription` | `StartSource` of ntfy, postgres, redis, mqtt; `relay.go` `runRelay` | the connection, its backoff, what is on its way; `Followers` has what differs |

`Feed` is the abstract promise of a source: it tells only what was sent, at most as often
as `Most` says. `Queue` implements it with any number of times (a message whose delete was
lost is told again) and `Sync` with once; `IsFeed` adds that SQS deletes nothing that was not
told. That a message is told in the end is `NothingLost`. It rests on a promise that needs no
fairness, `NothingPassedOver`: what is not told yet is still in reach of its source.

| in | what is not told is |
|---|---|
| `Debounce` | the last change: its timer runs, a goroutine has yet to read it, or it was read |
| `MailPoll` | unseen on the server, and not in the dedup unless it is about to be emitted |
| `Gateway` | in the log of a session that the gateway keeps, behind the number of the client, which knows the session |
| `Sync` | above the token, or about to be emitted, or left out by the homeserver |
| `Subscription` | on its way, or was lost with its stream |
| `SlackSocket` | if it was acknowledged, the work of a goroutine, or lost with its process |
| `AsanaHook` | if its batch was acknowledged, in a goroutine's hands or ahead of its own (part of `AsanaHolds`) |

This is where a fault would hide: whatever is skipped because it was seen before must have
been told, or be with somebody who will tell it.

### Deliveries, Exposures, GitHub, Sources: the modules together

Most of these parts belong to plugins of their own and share nothing. `Sources` EXTENDS
`SweepCadence` and instantiates the nine loops beside it, each with variables of its own; a
behaviour begins by choosing one part (`which`) and only that one moves. `Deliveries`
(`Delivery`, `Webhooks`), `Exposures` (`Exposure`, `Funnel`, `AsanaHook`) and `GitHub`
(`Triggers`, `StuckChecks`, `ReadCache`, `Branch`, `Sessions`) do the same. They are not a
claim about interaction: they let one run check, and one theorem state, a promise that
several parts make in the same words (`EmittedOnce`, `AllTyped`), for every value of all
their constants. The assumptions about the constants of an instantiated module are restated
there, as TLC and the provers read those of the modules that are extended.

The `MC` modules extend them with small sets, fairness, and the liveness properties; the
variables of the parts that do not run start at one value there, so that the state space is
the sum and not the product. Where the form of a property is liveness (`NothingLost`,
`LoopsGoOn`), the part that runs says what is due and what is done. `ReviewFolds` is two pull
requests in the same way, each with reviews and a configuration of its own and both with the
variables of `ReviewFold`; its properties are those of the one that runs.

## What the runs show

| run | question | states | bounds |
|---|---|---|---|
| `rf_cr` | one claim per review, a cursor that passes nothing uncovered, no comment run twice | 4.4 M | two reviews, an inline comment, a cache of one entry, a clock of one tick with an hour of none, a restart, with a `changes_requested` trigger; or one review with two comments, its reads failing and trailing |
| `rf_live` | every review covered or answered in the end, but for those named below | 0.7 M | two reviews on their body alone and no `changes_requested` trigger, with a close and reopen and a day that goes by; or an approval with a comment and a request for changes in a body, with a trigger that is the first listed one or is listed after a disabled one, and a restart; nothing trails or fails |
| `rf_trail` | a review's event carries all its comments: violated | - | one review, two comments, reads trail |
| `dl_both` | a delivery runs once while remembered; ring and set are a window; what the keys of the webhook connectors drop is like what was told | 0.6 M | three ids, one delivery without, a window of two, two POSTs and the stream, five copies; or two occurrences in two copies under each key of each connector, a window of one, a restart |
| `dl_spoiled` | a direct delivery is never lost: violated | - | the same |
| `dl_drops` | an event for each merge request hook of gitlab, and pull request hook of gitea: violated | - | the same, these two keys |
| `gh_all` | what runs was true, what lasts is run; the read cache; the branch; sessions | 0.5 M | one request with two heads and a close, two deliveries under way (one while the sweep runs), of `ready_for_review` with all, some or none of who was asked; two triggers of two repositories; two reads, a write; two `apply_diff`s, a `delete_branch`, three commits, a lost answer; two calls, two ends of the sessions |
| `tr_closed` | no conflict is emitted for a closed request: violated | - | the same |
| `so_all` | nudges and cadence; the loops of the sources: told once, in reach until then, told in the end | 0.15 M | two events at one to five minutes in half-minute ticks, one failure; three changes; three starts; three mails, one a copy; two replies, three drops; two things that change twice; two messages and three losses; three events in answers of two; six drops; a use of each kind with its copies |
| `so_mail` | a mail is told once across restarts: violated | - | three mails, one a copy; two failures, a restart |
| `ex_all` | tunnels, the mapping, asana's webhook | 0.16 M | two opens, one lease allowed, two closers, two calls; three opens on two ports; two handshakes, a batch of three events and one that brings the first again, two keys remembered, two deliveries taken by a process, a lost reply, a restart |
| `ex_off` | the mapping is off only when free: violated | - | the same |

Why the bounds are enough. A claim race needs two tasks of one review, and a cursor
that passes a review needs two reviews; a cache of one entry is full at once, and an
hour of zero ticks expires with the first tick of the clock, so both happen next to
a restart within the bounds. A ring of two with three ids wraps, and the fifth copy
can be one that was forgotten. From the lowest interval of SweepCadence to its ceiling is a
doubling and a cut. The cap of one lease is met by two opens, and three opens on two
ports are what a shared and a refused mapping take. A late end of a slack source
needs two starts, and a third shows that nothing is left over. Two drops leave a
session twice, and the third can come after it is discarded. A delivery that is handled
late needs one other change to be late for, which two heads and a close give; two under way
are handled in either order, and with the sweep on, which reads in between, one is.
(`MCGitHub` leaves out the second one where it costs most: of `merge_ready`, and of a review
that is asked for after the first head.) Two calls are what it takes to end each other's
session or to meet on a branch, two reads and a write to store the older answer last. A
key that was forgotten needs a window of one and two occurrences, and asana's a window of two
and three events, of which another delivery brings the first back. Six drops double a wait
to its bound. The theorems below need no bounds.

Deadlock is not checked: every bounded environment (reviews to submit, copies to
arrive, calls to make) runs out, and the system then rests. What must go on is stated as
liveness.

### Fairness

Goroutines that can run do (weak fairness of each handler, of the sweep, of the
poll, of closers and stops), and time passes. GitHub's reads catch up with its
webhooks in the end (`Show`), as the sweep reads again and again. The environment is
owed nothing else: deliveries may all be lost, the stream may stay down for ever
(`SweepCadence` has no fairness of `Connect`), processes need not crash, tunnels need
not print a URL, nobody need close a lease, the pull request may stay closed (then
`AllCovered` says nothing). Discovery of the login succeeds in the end in
`SweepCadence`: its retries go on for ever. In `Gateway` the gateway answers an
IDENTIFY or a RESUME; in `MailPoll` and the other loops the failures are bounded in
number. In `Triggers` the sweep's timer comes again and GitHub computes a merge state in
the end; a read that succeeds is owed only strong fairness (`Pull(TRUE)`), as it may fail
any number of times in between. A queue gives out what is visible, and what is hidden
comes back (`Receive`, `Reappear`). Where a mode of a module shares its run with others,
its fairness is stated for the behaviours that are its own (`Task(n)` in `MCSources`).

### Findings

Each is a run that fails on one property, with the code's own words for it.

- `rf_trail` (`reviewfold.go:258`): a review whose comment listing trails its webhook
  is taken for feedback on its body alone; its event carries none of its inline
  comments and their deliveries then find it claimed.
- `dl_spoiled` (`smee.go:164`): the id is remembered before the signature is checked,
  so a copy spoiled by the channel shadows the exact one posted directly.
- `ex_off` (`tailscale/main.go:856`): an open that comes between the last lease's
  count and its `off` gets a lease whose mapping that `off` takes down.
- `dl_drops` (`gitlab/main.go:775`, `gitea/main.go:798`): the key of a merge request or of a
  pull request is its number and the action, so a second update or reopening is dropped while
  the first one's key is remembered. `gitlab.md:5-6` and `gitea.md:7-8` say that the source
  streams an event per delivery (`gitea.md:72` again, of whatever changes a pull request).
  alertmanager is alike: its key (`alertmanager/main.go:176`, described so in
  `alertmanager.md:100-102`) is the fingerprint and the status, so an alert that fires again
  after it was resolved is silent, where `alertmanager.md:88` says once per alert in each
  webhook.
- `so_mail` (`email/main.go:478`): the set of message ids dies with the process, so a mail that
  the search still matches is told again after a restart; `email.md:110-112` says that it is
  deduplicated across restarts, within the window. The event carries the id (`dedup`, `:552`);
  whether the daemon remembers it is not in this repository.
- `tr_closed` (`sweep.go:437`): a request that is closed between the sweep's list and its
  read is emitted as `merge_conflict` or `pr_behind` all the same.

Others were met while modelling and have no run of their own; where they bear on a
property, the property excepts them (by a history variable, or `Overtaken`) and says so.

- `reviewfold.go:307`: two reviews that no `changes_requested` trigger takes are emitted from
  goroutines of their own. If the later one is dispatched first, or its webhook arrives and the
  earlier one's is lost, the engine's mark drops the earlier event and the sweep's recovery
  with it, for both are numbered by the comment (or the submission). `sweep.go:550` says that
  the mark drops what was handled, and `docs/connectors/github.md:322` that the sweep recovers
  missed comments. `AllCovered` excepts such a review by `Overtaken`, and `rf_live` has the case.
- `sweep.go:492` asks whether the *first* listed `changes_requested` trigger is enabled, and
  `:615`, `:645` whether *any* that is enabled would emit. With a disabled one listed before an
  enabled one the sweep then recovers nothing of a review that is not an approval, though the
  comment of `sweepBodyReviews` says that `sweepUnresolvedComments` carries every one still
  outstanding. `Due` excepts it; `rf_live` has that configuration (`OtherFirst`).
- `feedback.go:415`: when the outstanding feedback cannot be read, the event still moves the
  cursor to its own review, past an earlier one of which the event was lost; the package note
  (`feedback.go:18`) says that both are covered by whichever event is handled.
- `exposurekit.go:77`: the reaping and the record of it are two steps (`Reap`, `Record`), and a
  kill in between signals a pid that is free again, against the comment at `:88`.
- `events.go:1290`: a `ready_for_review` payload that names some of who was asked, but not
  you, is not read again, and your review waits for the sweep. `HooksReach` excepts it.
- `docs/connectors/github.md:196` gives each trigger its `stuck_after`; `sweep.go:701` takes
  the first listed one for all triggers of a repository, enabled or not.
- `github.md:197`: `merge_ready` does not fire while GitHub has not computed the merge
  state and no later delivery comes; the sweep does not look for it.
- `githubkit/http.go:45-47`: a read that overlaps a write may store, and then serve, the copy
  from before it.
- `applydiff.go`: a branch that was reset to an ancestor of the head that was read is
  moved forward over the reset. `deletebranch.go:46-50`: what is pushed between read and
  delete goes with the branch.
- `matrix.md:84`: an invite of the account itself is in a part of the answer that
  `main.go:671-690` does not read.
- `netdata/main.go:33-34`: an alarm that clears and is raised again is silent while its key is
  remembered.
- `uptimekuma`: payloads without the monitor share one key.
- slack: two reactions, shortcuts or forms on one message have one signature, so that
  the engine runs one of them.
- pihole: two calls that are refused at once each forget the session that the other has
  just made, and one of them fails.
- `ntfy.md:80` says the wait is capped at 30 s; doubled from one second it reaches 32 s.
- mqtt: a subscription that the broker refuses leaves the source connected and deaf.
- relay: a peer that goes away without a word is never noticed, as nothing is read with
  a deadline (`relay.go:124`).

## What is proved

Every theorem holds for all values of the constants under the named assumptions of its
module and of the modules it extends: the sets that are counted are finite, bounds and
intervals are numbers, what stands for nobody or for no id is not one of the others, each
run, open or comment belongs to one repository, port or review, and those who call
`apply_diff` are not those who call `delete_branch`. TLC evaluates the same assumptions in
the runs. A theorem that needs more says so in its own ASSUME: reads that do not fail or
trail for two of `ReviewFolds_proofs`. The provers check every step; nothing is assumed or
left out. Each theorem is one of the specification that its run checks, the composed one.

A property that excepts a case by a history variable (`missed`, `raced`, `untidy`,
`overlap`, ...) is proved with that exception, which is stated where the property is defined
and is a case that the code does get wrong or that is decided outside this repository.

Each proof has the same shape. The inductive invariant is the type invariant with what
the part must remember for the promise to last; a lemma per action, or per group of
actions that change the same variables, says that the action keeps it; and the theorem
combines them. In the composed modules a lemma first reduces a step of the whole to a step
or a stutter of one part (`SourcesStep`, `GitHubStep`, ...), so the proofs of a part do not
mention the others. `ReviewFold_proofs` has the lemmas of one pull request;
`ReviewFolds_proofs` instantiates it for the other, whose lemmas are then its instances.

| theorem | says | argument |
|---|---|---|
| `ReviewFolds_proofs!FoldsTyped` | every variable keeps its type | one lemma per operator that builds an event or a table, one per group of actions |
| `ReviewFolds_proofs!OneEvent` | a review is won once per hour and boot | inductive with `WinsRemembered`: a win of this boot is still claimed, by itself or a later one, or older than the hour. It is needed because the property speaks of the history of wins, and the code has only the table: what must not happen is that a full table or an expiry forgets a fresh claim. A restart begins a new boot, of which there is no win |
| `ReviewFolds_proofs!CursorsCoverHolds` | the cursor passes nothing that waits and was not carried, if reads neither fail nor trail | inductive with `CursorInv`: every fold *on its way* carries what it passes, at any later time. What waits at or below a submitted review only shrinks (`WaitingShrinks`), as reviews come in the order of their keys; so a fold stays good while it waits to be dispatched, and the order of dispatch is of no matter. Both are assumed of either pull request; without the first the cursor does pass one (`feedback.go:415`, above). The second pull request of `rf_cr`, whose reads do fail and trail, has one review; there the property is model-checked only |
| `ReviewFolds_proofs!NewCommentsRunOnceHolds` | no new_comment runs twice, if no comment trails | inductive with `RunsInv`: whoever builds a review's event holds all its comments (`HeldWhole`), so that the stream and the mark of a review are the same whichever task builds it (`EventsWhole`), and the marks rise (`MarksRise`). Nothing is said of the claims: the theorem holds whatever they forget |
| `Delivery_proofs!ImplementsWindow` | ring and set implement `Window` | inductive with `WindowInv`: the ring is the tail of what was let through, the set holds the ring's ids, equal ids are more than `Max` apart. The last keeps the ring free of duplicates, without which dropping the oldest from the set would forget an id the ring still has |
| `Delivery_proofs!RunsOnceHolds` | two runs of a delivery are more than `Max` apart | from `WindowInv` and `PlaceInv`, which gives each handler and run a place of its own among what was let through, as handlers emit in any order |
| `Delivery_proofs!DirectRunsHolds` | a delivery posted directly has run or is about to | inductive with `KeptInv`: what is remembered, and was never spoiled, has run or is held by a handler whose copy verifies; without it a duplicate that is dropped could shadow a copy that comes to nothing |
| `Delivery_proofs!EmittedOnceHolds`, `DropsAreLikeToldHolds` | under every connector's key: emitted once while remembered; what is dropped was told, or is like what was, as far as the key says | one invariant, `HookInv`. `Placed`: what is held and what was emitted are together no more than what was let through, so a second emit needs a second place among the keys. `Origins`: each key that is remembered is that of something that was told, up to the second of receipt, which is what a drop relies on; a restart forgets keys and what is held together |
| `Sources_proofs!NudgesSuffice` | a gap is covered by a nudged sweep until a sweep fails | inductive with the flags of stream and discovery: while the stream is down or the login unknown, the flag that makes the reconnect nudge is set |
| `Sources_proofs!NudgeKeptHolds` | a nudge is never lost | inductive as it is |
| `Sources_proofs!CadenceHolds` | the interval is what the calm since the last nudge makes it | the history `calm` is the power itself, so that it needs no recursion; `Doubling` is the arithmetic of `backoffInterval` at the ceiling; `Paced` ties a due tick to the interval it was set with. The floor: `FirstRespectsFloor` and `IntervalsRespectFloor` |
| `Sources_proofs!FiresOnceQuietHolds` | a watch emits no more often than it was armed, and once it is quiet | inductive with `Quiet`: a timer that runs tells how long the watch has been quiet, and a goroutine that has expired beside a timer that runs was overtaken by a change |
| `Sources_proofs!OneReachedHolds` | a stop reaches what pumps; one source pumps | inductive with `Ordered`: a start that has yet to register is the latest, and nothing is registered by then. `OnePump` follows from it and `StopReaches` |
| `Sources_proofs!IsFeedHolds` | `Queue` and `Sync` implement `Feed` | each step of the code maps to a step of `Feed` or a stutter. For the queue, `Worked`: what is worked on was sent, and what is being deleted was told. For the sync, `Followed`: what is about to be told has happened, is remembered and was not told, and what was told before is remembered or from before the process's first answer |
| `SourcesOnce_proofs!EmittedOnceHolds` | five kinds of source emit once what is one thing | one invariant for each. `MailInv`: a mail at hand is in the dedup and not told by this process. `GatewayInv`: a reply is in the log once, and what was emitted lies at or before the client's number as long as the log may be dispatched. `PollsInv`: the keys are let through as by `Window`. `FollowInv`: what is on its way and will be emitted is in order behind what was told, but for what MQTT retains. `SocketInv`: the emits of a use, done, under way and about to be, are no more than the firing envelopes of it that the process remembers (`Within`), as copies are one envelope |
| `SourcesKept_proofs!NothingPassedOverHolds` | what six kinds of source have not told is in reach | one invariant for each, beside those of `EmittedOnceHolds`. `MailKept`: what is marked was emitted or read elsewhere, and what the dedup holds was emitted or is at hand. `GatewayKept`: a client that was told of the session that is kept knows it, and its number is behind the reply. `SyncKept`: what was seen was told or is about to be, so that a skip loses nothing. `FollowKept`: only who follows has anything on its way, and what a dedup drops was told. `SocketKept`: each key that is remembered belongs to an envelope that is being decided, under way or told (`Remembered`), so that the acknowledged copy that is dropped leaves the first at work |
| `SourcesOnce_proofs!SourcesTyped` | types of the ten sources | from the ten invariants |
| `Exposures_proofs!NoneOrphaned`, `OneStopperHolds` | no orphan; one stopper | one inductive invariant: what the place of an open says of its stop and process (`Stands`), and that a lease a closer took is out of the table and being stopped (`Taken`) |
| `Exposures_proofs!CapKept` | no instance passes its cap | only `AddCapped` adds to the table, under its check; everything else shrinks it |
| `Exposures_proofs!HelpersDieHolds` | a stop leaves nothing of the group | inductive with what a stopped, uncrashed group went through: it died by the signal that its stop sent before the exit was recorded |
| `Exposures_proofs!MappingKeptHolds` | the mapping is up for whom it should be | inductive with `FunnelInv`: the count is the number of holders (by cardinality, as opens come and go), the holders share the port remembered (`SharePort`), and who has the port mapped: the operator, holders, or a stop that is about to turn it off (`Mapped`) |
| `Exposures_proofs!AsanaHoldsAlways` | one handshake, none refused, events again only when forgotten and none passed over | inductive with `AsanaInv`: while the window is open nothing is installed, and one handshake is afterwards (`Windowed`); a webhook that stands is known to the process it was established with (`KnowsInstalled`); each emit and each goroutine has a place of its own among what was let through (`HoldsOwn`), where equal events are more than `DedupMax` apart (`Spaced`, as in `Delivery`). With `AsanaKept`, what was let through is emitted or in somebody's hands, so that one who drops an event as a copy passes over nothing |
| `Exposures_proofs!ExposuresTyped`, `Delivery_proofs!DeliveriesTyped`, `GitHub_proofs!GitHubTyped` | types of all parts | from the invariants; for the sessions it takes a count (`Bounded`): a session is the first, or was given to a call, at most twice to each |
| `GitHub_proofs!RunsWereTrueHolds` | what ran was true at its head | inductive with what the copies under way and the sweep's item say of the request at the time they were made |
| `GitHub_proofs!SeesWritesAloneHolds` | a read serves nothing older than a write that was done before it | inductive with `Current`: what the cache holds and what GitHub has answered is no older than the last write done, and no read under way wants more |
| `GitHub_proofs!BranchKeptHolds` | the diff is on the branch once; a call takes off it only what it saw | an invariant and an action property, from `BranchInv`: a commit with the diff is made of a branch without it, only a fast-forward makes it the branch, and a call that has read the branch acts on a head without the diff, or on the one it expects (`ReadersKnow`) |
| `GitHub_proofs!SessionsServeHolds` | a call alone outlives the end of its session; logins under the lock are bounded | one invariant: who has met nobody holds the newest session (`AloneIsServed`), and under the lock one call is under way (`Locked`) |

Only model-checked:

- all liveness (`AllCovered`, `SweepRecovers`, `HooksReach`, `StuckIsTold`,
  `EventuallyRecovered`, `NothingLost`, `LoopsGoOn`, `CallsReturn`, `HandledIsEmitted`):
  fairness and ENABLED are beyond the prover. Of `NothingLost` and `HandledIsEmitted` the part
  that needs no fairness is proved, as `NothingPassedOver` and in `AsanaHolds`;
- `CursorsCover` where reads fail and there is one review, as said above;
- what a definition by recursion on data computes for every input, as the prover has no
  induction over data. No property above depends on one.


## What is not modelled

`PROJECT.json` lists every component with its status. Left out for good:

- the verb tables of the connectors and of githubkit (most of the repository's lines):
  each verb is a request or a command with its arguments and the decoding of what comes
  back; there is no state for a step to get wrong, and a model would be the API's;
- wire formats, HTTP, signatures and their bytes, wording, logs, declarations and help texts;
- ghfake, rpctest and the fakes of the connectors, which are test doubles;
- the code engines, which evaluate a program of the user's, and awskit, a computation
  over bytes;
- the Windows process tree, and what the arguments of ssh, ngrok and localxpose mean.

That is why the map covers a small share of the lines: the state and the concurrency
of this repository are in few of them.

The plugin library
(`plugin.Serve`, `sourcekit`) and the daemon are not in this repository; where the
order in which the library lets calls in decides a property, the property excepts the
case by a history variable and says so (`missed` in `SlackInstances`).

## What is left

- Proofs: every safety property of a passing run is a theorem, and `NothingPassedOver` is the
  safety that six sources' liveness rests on. The like could be stated of what the sweeps
  recover (`AllCovered`, `SweepRecovers`, `EventuallyRecovered`).
- Slack's clients over a reload (`plugin.go:51`): whether the process outlives one is the
  daemon's.
- The lowering of filters (`filter.go`) as operators against a reference definition.
- Larger instances of `Triggers` (two deliveries under way beside the sweep).

----------------------------- MODULE MCDelivery -----------------------------
(* Few handlers and ids, and a ring smaller than the ids, for Delivery; two *)
(* occurrences of which two copies each arrive, for the webhooks.           *)
EXTENDS Deliveries, TLC

CONSTANTS a, b, c, p, q
OnePost   == {p}
TwoPosts  == {p, q}
ThreeIds  == {a, b, c}
TwoIds    == {a, b}
Symmetric == Permutations({a, b, c}) \cup Permutations({p, q})

\* The variables of the other start at one value.
MCInit == DeliveriesInit /\ (which = "github" => rule = H!Alertmanager)
MCSpec == MCInit /\ [][DeliveriesNext]_all

\* The merge requests of gitlab and the pull requests of gitea, and what the documentation of
\* both says.
ForgeSpec == /\ MCInit /\ which = "webhook" /\ rule \in {H!GitlabMergeRequest, H!GiteaPullRequest}
             /\ [][DeliveriesNext]_all
EventPerDelivery == H!EventPerDelivery
=============================================================================

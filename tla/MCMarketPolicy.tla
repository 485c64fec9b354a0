--------------------------- MODULE MCMarketPolicy ---------------------------
(***************************************************************************)
(* MarketPolicy for TLC.  Its handlers touch three groups of state that are *)
(* nearly independent, and their product is out of reach: a behaviour plays *)
(* one scene, in which only the handlers of one group run, with those of    *)
(* its neighbours it depends on.                                            *)
(***************************************************************************)
EXTENDS MarketPolicy, TLC

CONSTANTS c1, c2

VARIABLE scene

MCCall == {c1, c2}
Symmetry == Permutations(MCCall)

MCInit == Init /\ scene \in {"review", "tests", "activation"}

\* Counsel's review against every writer of the draft.
ReviewScene == scene = "review" /\ (ReviewNext \/ VersionsNext)

\* The self-test against every change of what it tests.
TestsScene ==
    /\ scene = "tests"
    /\ \/ TestsNext
       \/ TemplatesNext
       \/ \E c \in Call : AcceptRead(c) \/ createVersion(c)

\* The request, the licence and the campaign.
ActivationScene ==
    /\ scene = "activation"
    /\ \/ StatusNext
       \/ LicenceNext
       \/ ReviewLapses
       \/ \E c \in Call : markChanged(c)

MCNext ==
    /\ UNCHANGED scene
    /\ \/ ReviewScene
       \/ TestsScene
       \/ ActivationScene
       \/ \E c \in Call : GiveUp(c)

MCSpec == MCInit /\ [][MCNext]_<<vars, scene>>

=============================================================================

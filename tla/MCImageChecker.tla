-------------------------- MODULE MCImageChecker ---------------------------
(* An image behind an index, of which the registry says something as well, *)
(* a reference that cannot be parsed, and every kind of response config.   *)
EXTENDS ImageChecker, TLC

CONSTANTS image, noReference, index, child

MCPath == [i \in Images |-> <<index, child>>]

NoConfig == [i \in {} |-> "plain"]
MCConfigs == { NoConfig, (noReference :> "plain"), (image :> "stamped"),
               (image :> "plain"), (image :> "invalid") }
=============================================================================

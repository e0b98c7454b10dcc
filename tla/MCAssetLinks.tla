---------------------------- MODULE MCAssetLinks ----------------------------
\* Every kind, for the run that stops at its first counterexample.
EXTENDS AssetLinks, TLC

MCAsset == 1..5
MCKindOf == 1 :> "item" @@ 2 :> "item" @@ 3 :> "invoice" @@ 4 :> "contract" @@ 5 :> "software"
=============================================================================

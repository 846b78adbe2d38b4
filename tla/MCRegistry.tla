----------------------------- MODULE MCRegistry -----------------------------
EXTENDS Registry, TLC

CONSTANTS a, b, p

MCKindOf == a :> "openapi" @@ b :> "openapi" @@ p :> "proto"
=============================================================================

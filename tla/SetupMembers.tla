----------------------------- MODULE SetupMembers -----------------------------
(***************************************************************************)
(* What the two Initialize calls make, in the order they make it.  A call  *)
(* that stops leaves what stands before the step that failed: Session has  *)
(* that as an invariant of the two setups, and the teardowns start from    *)
(* it.                                                                     *)
(***************************************************************************)
EXTENDS Integers, Sequences

ServerMakes ==
  <<"wsa", "framework", "pAdapter", "ov", "hAdapterFile", "pMr", "pMw", "pCq", "Sgl",
    "pConnector", "Results_Server", "pQp", "pListen">>

ClientMakes ==
  <<"wsa", "ov", "framework", "v4_Local", "pAdapter", "hAdapterFile", "Sgl", "SglBatchRead",
    "pResult", "pMr", "pCq", "pRq", "pConnector", "pQp">>

Elements(s) == {s[n] : n \in DOMAIN s}

(* The objects of a setup that stopped somewhere. *)
IsLeftBy(objects, makes) ==
  \E n \in 0 .. Len(makes) : objects = Elements(SubSeq(makes, 1, n))
=============================================================================

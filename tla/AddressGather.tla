----------------------------- MODULE AddressGather -----------------------------
(***************************************************************************)
(* Framework::ProcessAddressChange (ndfrmwrk.cpp, 814-886): each active    *)
(* provider is asked for its addresses into one buffer, pAddrList, that is *)
(* allocated again when a provider finds it too small, while the addresses *)
(* change; BuildAddressList makes entries of what it reads there.          *)
(***************************************************************************)
EXTENDS Integers, Sequences, FiniteSets, SequencesExt

CONSTANTS
  N,           \* the active providers are 1 .. N, in the order of m_ProviderList
  OfV1,        \* those of version 1
  MaxAddrs,    \* bound: addresses of a provider
  MaxMoves,    \* bound: changes of the addresses
  Faults       \* what can happen: "heap", "call", "memory"

ASSUME GatherAssumption ==
  /\ N \in Nat /\ OfV1 \subseteq 1 .. N /\ MaxAddrs \in Nat /\ MaxMoves \in Nat
  /\ Faults \subseteq {"heap", "call", "memory"}

VARIABLES
  has,             \* the system: the addresses of each provider
  moves,
  at, step,        \* the provider that is asked, and how far
  pAddrList, len,  \* bytes allocated, 0 for none; what the next call is told
  content,         \* whose list the buffer holds, and which, or NoContent
  ndV1, ndV2,      \* m_NdV1AddrList and m_NdAddrList: pairs of provider and address
  grew,            \* history: a list outgrew the buffer it had asked for
  skipped          \* history: providers whose answer could not be had

lists     == <<ndV1, ndV2>>
gathering == <<has, moves, at, step, pAddrList, len, content, lists, grew, skipped>>

Providers == 1 .. N
Kind      == {"v4", "short"}          \* one that is usable, and one that is not
Bytes(s)  == 8 + 32 * Len(s)
NoContent == [of |-> 0, list |-> <<>>]

GatherTypeOK ==
  /\ has \in [Providers -> BoundedSeq(Kind, MaxAddrs)] /\ moves \in 0 .. MaxMoves
  /\ at \in 1 .. N + 1
  /\ step \in {"ask", "allocate", "again", "build", "done", "threw"}
  /\ pAddrList \in Nat /\ len \in Nat
  /\ content.of \in Providers \union {0}
  /\ ndV1 \in Seq(OfV1 \X {"v4"}) /\ ndV2 \in Seq((Providers \ OfV1) \X {"v4"})
  /\ grew \in BOOLEAN /\ skipped \subseteq Providers

GatherInit ==
  /\ has \in [Providers -> BoundedSeq(Kind, MaxAddrs)] /\ moves = 0
  /\ at = 1 /\ step = "ask" /\ pAddrList = 0 /\ len = 0 /\ content = NoContent
  /\ ndV1 = <<>> /\ ndV2 = <<>> /\ grew = FALSE /\ skipped = {}

AddressesChange ==
  /\ moves < MaxMoves /\ moves' = moves + 1 /\ step \notin {"done", "threw"}
  /\ \E p \in Providers, s \in BoundedSeq(Kind, MaxAddrs) : has' = [has EXCEPT ![p] = s]
  /\ UNCHANGED <<at, step, pAddrList, len, content, lists, grew, skipped>>

-----------------------------------------------------------------------------
(* What provider `at' answers: external.  It trusts the length it is given, *)
(* reports the one it needs, and answers an empty list with an empty list.  *)
Small     == pAddrList = 0 \/ Bytes(has[at]) > len
Succeeds  == ~Small /\ len' = Bytes(has[at]) /\ content' = [of |-> at, list |-> has[at]]
Overflows == Small /\ len' = Bytes(has[at]) /\ UNCHANGED content

NextProvider == at' = at + 1 /\ step' = "ask"
Skip         == skipped' = skipped \union {at} /\ NextProvider

(* The first call; a failure other than the overflow passes the provider    *)
(* over, and so does one of its DLL.                                        *)
AskProvider ==
  /\ step = "ask" /\ at \in Providers
  /\ \/ Succeeds /\ step' = "build" /\ UNCHANGED <<at, skipped>>
     \/ Overflows /\ step' = "allocate" /\ UNCHANGED <<at, skipped>>
     \/ "call" \in Faults /\ Skip /\ UNCHANGED <<len, content>>
  /\ UNCHANGED <<has, moves, pAddrList, lists, grew>>

(* The old buffer is freed, and a new one allocated. *)
Allocate ==
  /\ step = "allocate" /\ content' = NoContent
  /\ \/ pAddrList' = len /\ step' = "again" /\ UNCHANGED <<at, skipped>>
     \/ "heap" \in Faults /\ pAddrList' = 0 /\ Skip
  /\ UNCHANGED <<has, moves, len, lists, grew>>

(* Mutant: the second answer is not looked at (864). *)
AskProviderUnchecked ==
  /\ step = "again" /\ (Succeeds \/ Overflows) /\ step' = "build"
  /\ UNCHANGED <<has, moves, at, skipped, pAddrList, lists, grew>>

(* "If the allocated buffer is not large enough, our request for address    *)
(* change notifcation will pick up the change" (852-853): the second        *)
(* overflow is a failure.                                                   *)
AskProviderAgain ==
  /\ step = "again"
  /\ \/ Succeeds /\ step' = "build" /\ UNCHANGED <<at, skipped, grew>>
     \/ Overflows /\ Skip /\ grew' = TRUE
     \/ "call" \in Faults /\ Skip /\ UNCHANGED <<len, content, grew>>
  /\ UNCHANGED <<has, moves, pAddrList, lists>>

Usable(s) == Cardinality({i \in DOMAIN s : s[i] = "v4"})
Adds(n) ==
  LET addresses == [k \in 1 .. n |-> <<at, "v4">>] IN
  IF at \in OfV1 THEN ndV1' = ndV1 \o addresses /\ UNCHANGED ndV2
               ELSE ndV2' = ndV2 \o addresses /\ UNCHANGED ndV1

(* Mutant: every entry is taken for an address (537-560). *)
BuildUnfiltered ==
  /\ step = "build" /\ NextProvider
  /\ LET all == [k \in DOMAIN content.list |-> <<at, content.list[k]>>] IN
     IF at \in OfV1 THEN ndV1' = ndV1 \o all /\ UNCHANGED ndV2
                 ELSE ndV2' = ndV2 \o all /\ UNCHANGED ndV1
  /\ UNCHANGED <<has, moves, pAddrList, len, content, grew, skipped>>

(* BuildAddressList: entries that are too short, or of another family, are  *)
(* passed over; the list is that of the provider's version.                 *)
Build ==
  /\ step = "build" /\ NextProvider /\ Adds(Usable(content.list))
  /\ UNCHANGED <<has, moves, pAddrList, len, content, grew, skipped>>

(* new Address throws (564-565): the entries made before it stay in the     *)
(* list, the providers behind are not asked, and pAddrList is not freed.    *)
BuildThrows ==
  /\ step = "build" /\ "memory" \in Faults /\ step' = "threw"
  /\ \E n \in 0 .. Usable(content.list) - 1 : Adds(n)
  /\ UNCHANGED <<has, moves, at, pAddrList, len, content, grew, skipped>>

Done ==
  /\ step = "ask" /\ at \notin Providers /\ step' = "done"
  /\ UNCHANGED <<has, moves, at, pAddrList, len, content, lists, grew, skipped>>

GatherNext ==
  \/ AddressesChange \/ AskProvider \/ Allocate \/ AskProviderAgain
  \/ Build \/ BuildThrows \/ Done
GatherSpec == GatherInit /\ [][GatherNext]_gathering

-----------------------------------------------------------------------------
(* The length a provider is told is not more than the buffer holds, unless  *)
(* an earlier list outgrew the buffer it had asked for.                     *)
LengthIsOfBuffer ==
  step \in {"ask", "again"} /\ pAddrList # 0 /\ ~grew => len <= pAddrList

(* BuildAddressList reads the list of the provider it makes addresses for,  *)
(* not one that another left in the same buffer.                            *)
BuildsFromOwnList == step = "build" => content.of = at

GatherInv == GatherTypeOK /\ LengthIsOfBuffer /\ BuildsFromOwnList

(* When nothing changed meanwhile, the two lists hold the usable addresses  *)
(* of every provider that could be asked, no more of them and no fewer,     *)
(* under the provider they belong to and in the order of m_ProviderList.    *)
From(list, p) == Cardinality({k \in DOMAIN list : list[k][1] = p})
Expected(p)   == IF p \in skipped THEN 0 ELSE Usable(has[p])
InOrder(list) == \A j, k \in DOMAIN list : j <= k => list[j][1] <= list[k][1]
ListsAreComplete ==
  step = "done" /\ moves = 0 =>
    /\ \A p \in OfV1 : From(ndV1, p) = Expected(p)
    /\ \A p \in Providers \ OfV1 : From(ndV2, p) = Expected(p)
    /\ InOrder(ndV1) /\ InOrder(ndV2)

(* "If the allocated buffer is not large enough, our request for address    *)
(* change notifcation will pick up the change" (852-853): meanwhile no      *)
(* other provider writes past the end of the buffer.                        *)
OvergrowthIsHarmless == content # NoContent => Bytes(content.list) <= pAddrList
==============================================================================

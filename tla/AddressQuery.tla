----------------------------- MODULE AddressQuery -----------------------------
(***************************************************************************)
(* Framework::QueryAddressList (ndfrmwrk.cpp, 193-254): the addresses of   *)
(* both lists laid out in a buffer of the caller, an array of entries      *)
(* first and the socket addresses the entries point to behind it; and the  *)
(* caller, who asks for the size, allocates it and asks again while the    *)
(* lists change between its calls.  An address is its family.  Sizes are   *)
(* those of the 64-bit build, in bytes.                                    *)
(***************************************************************************)
EXTENDS Integers, Sequences, FiniteSets, SequencesExt

CONSTANTS
  MaxList,     \* bound: addresses in each list
  MaxChanges,  \* bound: changes of the lists
  Offered,     \* sizes of the buffers a caller may come with
  IntMax       \* INT_MAX, the most addresses an answer holds

ASSUME QueryAssumption ==
  MaxList \in Nat /\ MaxChanges \in Nat /\ Offered \subseteq Nat /\ IntMax \in Nat

VARIABLES
  nd2, nd1,        \* m_NdAddrList and m_NdV1AddrList
  changes,
  flags,           \* of the call: which lists it leaves out
  buffer, size,    \* bytes of the caller's buffer, 0 for none; *pcbAddressList
  pc, reply,
  todo,            \* addresses CopyAddressList has not come to
  iAddressCount, pBuf, cbRemaining,
  array            \* entries in front of pBuf: nV4 + nV6

registry == <<nd2, nd1, changes>>
copying  == <<todo, iAddressCount, pBuf, cbRemaining, array>>
vars     == <<registry, flags, buffer, size, pc, reply, copying>>

Family == {"v4", "v6"}
Lists  == BoundedSeq(Family, MaxList)
Length(f) == IF f = "v4" THEN 16 ELSE 28     \* sockaddr_in, sockaddr_in6
Entry(n)  == 8 + 16 * n                      \* FIELD_OFFSET of Address[n]

TypeOK ==
  /\ nd2 \in Lists /\ nd1 \in Lists /\ changes \in 0 .. MaxChanges
  /\ flags \subseteq {"nd2", "nd1"}
  /\ buffer \in Nat /\ size \in Nat
  /\ pc \in {"idle", "called", "copy"}
  /\ reply \in {"none", "success", "overflow"}
  /\ todo \in BoundedSeq(Family, 2 * MaxList)
  /\ iAddressCount \in 0 .. IntMax /\ pBuf \in Nat /\ cbRemaining \in Nat /\ array \in Nat

Init ==
  /\ nd2 \in Lists /\ nd1 \in Lists /\ changes = 0
  /\ flags = {} /\ buffer = 0 /\ size = 0 /\ pc = "idle" /\ reply = "none"
  /\ todo = <<>> /\ iAddressCount = 0 /\ pBuf = 0 /\ cbRemaining = 0 /\ array = 0

Asked == (IF "nd2" \in flags THEN <<>> ELSE nd2) \o (IF "nd1" \in flags THEN <<>> ELSE nd1)

-----------------------------------------------------------------------------
(* ProcessUpdates of another caller. *)
ListsChange ==
  /\ pc # "copy" /\ changes < MaxChanges /\ changes' = changes + 1
  /\ nd2' \in Lists /\ nd1' \in Lists /\ <<nd2', nd1'>> # <<nd2, nd1>>
  /\ UNCHANGED <<flags, buffer, size, pc, reply, copying>>

(* A caller comes with a buffer, or none. *)
Ask ==
  /\ pc = "idle" /\ reply = "none" /\ pc' = "called"
  /\ flags' \in SUBSET {"nd2", "nd1"} /\ size' \in Offered /\ buffer' \in {0, size'}
  /\ UNCHANGED <<registry, reply, copying>>

AskAgain ==
  /\ pc = "idle" /\ reply = "overflow" /\ pc' = "called" /\ buffer' = size
  /\ UNCHANGED <<registry, flags, size, reply, copying>>

(* The addresses of a family, nV4 and nV6, and the bytes they all take. *)
OfFamily(s, f) == Cardinality({i \in DOMAIN s : s[i] = f})
Sum(s)         == Length("v4") * OfFamily(s, "v4") + Length("v6") * OfFamily(s, "v6")

(* Mutant: every address is counted as one of version 4. *)
RequiredV4(counted) == Entry(Len(counted)) + 16 * Len(counted)
Required(counted)   == Entry(Len(counted)) + Sum(counted)

(* Mutant: the second list is not counted (215-218). *)
CountedFirst ==
  LET first == IF "nd2" \in flags THEN <<>> ELSE nd2
  IN  SubSeq(first, 1, IF Len(first) < IntMax THEN Len(first) ELSE IntMax)
Counted == SubSeq(Asked, 1, IF Len(Asked) < IntMax THEN Len(Asked) ELSE IntMax)

(* CountAddresses on both lists; without addresses the list itself is left  *)
(* as it came.                                                              *)
Nothing ==
  /\ pc = "called" /\ Counted = <<>>
  /\ pc' = "idle" /\ reply' = "success" /\ size' = 0
  /\ UNCHANGED <<registry, flags, buffer, copying>>

(* Mutant: the size is not handed back. *)
OverflowSizeKept ==
  /\ pc = "called" /\ Counted # <<>> /\ (buffer = 0 \/ Required(Counted) > size)
  /\ pc' = "idle" /\ reply' = "overflow"
  /\ UNCHANGED <<registry, flags, buffer, size, copying>>

Overflow ==
  /\ pc = "called" /\ Counted # <<>> /\ (buffer = 0 \/ Required(Counted) > size)
  /\ pc' = "idle" /\ reply' = "overflow" /\ size' = Required(Counted)
  /\ UNCHANGED <<registry, flags, buffer, copying>>

StartCopy ==
  /\ pc = "called" /\ Counted # <<>> /\ buffer # 0 /\ Required(Counted) <= size
  /\ pc' = "copy" /\ todo' = Asked /\ iAddressCount' = 0
  /\ array' = Len(Counted) /\ pBuf' = Entry(array') /\ cbRemaining' = size - Entry(array')
  /\ UNCHANGED <<registry, flags, buffer, size, reply>>

(* CopySockaddr: an address that does not fit is left out. *)
Fits == Length(todo[1]) <= cbRemaining

More == todo # <<>> /\ iAddressCount < IntMax

CopyOne ==
  /\ pc = "copy" /\ More /\ todo' = Tail(todo)
  /\ IF Fits
     THEN /\ iAddressCount' = iAddressCount + 1
          /\ pBuf' = pBuf + Length(todo[1])
          /\ cbRemaining' = cbRemaining - Length(todo[1])
     ELSE UNCHANGED <<iAddressCount, pBuf, cbRemaining>>
  /\ UNCHANGED <<registry, flags, buffer, size, pc, reply, array>>

Copied ==
  /\ pc = "copy" /\ ~More /\ pc' = "idle" /\ reply' = "success"
  /\ UNCHANGED <<registry, flags, buffer, size, copying>>

Answer == Nothing \/ Overflow \/ StartCopy \/ CopyOne \/ Copied
Next   == ListsChange \/ Ask \/ AskAgain \/ Answer
Spec   == Init /\ [][Next]_vars /\ WF_vars(AskAgain) /\ WF_vars(Answer)

-----------------------------------------------------------------------------
(* Every write of CopyAddressList is inside the caller's buffer, and the    *)
(* entries and the socket addresses do not run into each other (234-251,    *)
(* 582-605).                                                                *)
WritesStayInside ==
  pc = "copy" /\ More /\ Fits =>
    /\ Entry(iAddressCount + 1) <= Entry(array) /\ Entry(array) <= pBuf
    /\ pBuf + Length(todo[1]) <= buffer

Inv == TypeOK /\ WritesStayInside

(* An answer is whole: its count is that of the addresses that were asked   *)
(* for, although the copying would leave out what does not fit.             *)
AnswerIsWhole == pc = "copy" /\ ~More => iAddressCount = array /\ array = Len(Counted)

(* The size that comes with an overflow is enough for a second call on the  *)
(* same lists: a caller that follows it ends with an answer as soon as the  *)
(* lists stay as they are.                                                  *)
CallerGetsAnswer == pc = "called" ~> reply = "success"
==============================================================================

------------------------------- MODULE Ownership -------------------------------
(***************************************************************************)
(* What DestroyConnection of the server and of the client share: members   *)
(* that point to objects, set by Initialize and never cleared, on which    *)
(* the public methods are called in any order.  A member that the          *)
(* constructor leaves alone starts as garbage.                             *)
(***************************************************************************)
EXTENDS SetupMembers

CONSTANTS
  Makes,    \* what Initialize makes, in order
  Zeroed,   \* the members the constructor sets to null
  MaxCalls  \* bound: how often the owner calls a public method

ASSUME CallsAssumption == MaxCalls \in Nat

Counted == {"wsa", "framework"}   \* no pointer: started and cleaned up by count
Members == Elements(Makes) \ Counted

VARIABLES
  ptr,        \* what each member holds
  object,     \* the object it was last set to
  held,       \* WSAStartup less WSACleanup, NdStartup less NdCleanup
  connected,  \* m_bConnected
  pc,         \* where DestroyConnection is, or "idle"
  reply,      \* what the last call returned
  calls,
  abandoned,  \* history: members that were set anew while their object lived
  misused,    \* history: the wrong uses of members that were made
  past        \* history: the calls so far, and what did not go well

owned   == <<ptr, object, held>>
history == <<abandoned, misused, past>>
vars    == <<owned, connected, pc, reply, calls, history>>

Events == {"set up", "stopped", "reused", "half open", "still connected",
           "Disconnect", "Deregister", "NdCleanup"}

OwnershipTypeOK ==
  /\ ptr \in [Members -> {"garbage", "null", "set"}]
  /\ object \in [Members -> {"none", "live", "released"}]
  /\ held \in [Counted -> 0 .. MaxCalls]
  /\ connected \in BOOLEAN
  /\ reply \in {"none", "OK", "error"}
  /\ calls \in 0 .. MaxCalls
  /\ abandoned \subseteq Members
  /\ misused \subseteq {"unset", "again"} \X Members
  /\ past \subseteq Events

Init ==
  /\ ptr = [m \in Members |-> IF m \in Zeroed THEN "null" ELSE "garbage"]
  /\ object = [m \in Members |-> "none"]
  /\ held = [c \in Counted |-> 0]
  /\ connected = FALSE /\ pc = "idle" /\ reply = "none" /\ calls = 0
  /\ abandoned = {} /\ misused = {} /\ past = {}

(* A region that is made anew has no buffer in it: what the one before has  *)
(* registered stays with that one, to which nothing points any more.        *)
Anew(made) == made \union (IF "pMr" \in made THEN {"registration"} ELSE {})

(* Initialize, on a fresh object or again: it runs to the end, or stops     *)
(* with an error somewhere.  m_bConnected is set when OpenAdapter is done,  *)
(* long before the end, and no error resets it: a setup that stops earlier  *)
(* leaves its objects half open, to be found by no DestroyConnection, and   *)
(* nothing keeps the owner from setting up what is still connected.         *)
Initialize ==
  /\ pc = "idle" /\ calls < MaxCalls /\ calls' = calls + 1
  /\ \E n \in 0 .. Len(Makes) :
       LET made == Elements(SubSeq(Makes, 1, n)) IN
       /\ ptr' = [m \in Members |-> IF m \in made THEN "set" ELSE ptr[m]]
       /\ object' = [m \in Members |-> IF m \in made THEN "live"
                                      ELSE IF m \in Anew(made) THEN "none" ELSE object[m]]
       /\ held' = [c \in Counted |-> IF c \in made THEN held[c] + 1 ELSE held[c]]
       /\ connected' = (connected \/ {"pAdapter", "hAdapterFile"} \subseteq made)
       /\ abandoned' = abandoned \union {m \in Members \intersect Anew(made) : object[m] = "live"}
       /\ past' = past \union {"set up"}
                       \union (IF n < Len(Makes) THEN {"stopped"} ELSE {})
                       \union (IF "set up" \in past THEN {"reused"} ELSE {})
                       \union (IF made # {} /\ ~connected' THEN {"half open"} ELSE {})
                       \union (IF connected THEN {"still connected"} ELSE {})
       /\ reply' = IF n < Len(Makes) THEN "error" ELSE "OK"
  /\ UNCHANGED <<pc, misused>>

Finish(result) == pc' = "idle" /\ reply' = result

(* DestroyConnection is called: it returns at once unless m_bConnected. *)
Destroy(first) ==
  /\ pc = "idle" /\ calls < MaxCalls /\ calls' = calls + 1
  /\ IF connected THEN pc' = first /\ reply' = reply ELSE Finish("OK")
  /\ UNCHANGED <<owned, connected, history>>

(* A call through member m is right when m points to a live object, and is  *)
(* left out when m is null, which garbage may be by chance.                 *)
Right(m)   == ptr[m] = "set" /\ object[m] = "live"
Skipped(m) == ptr[m] \in {"null", "garbage"}

(* Otherwise anything may happen: the program crashes, or it goes on. *)
Misuse(m, next) ==
  /\ ~Right(m) /\ ptr[m] # "null"
  /\ misused' = misused \union {<<IF ptr[m] = "set" THEN "again" ELSE "unset", m>>}
  /\ pc' \in {next, "crashed"}
  /\ UNCHANGED <<owned, abandoned, past, reply>>

GoesOn(next) == pc' = next /\ UNCHANGED <<owned, history, reply>>

(* `if (m) m->Release()', and delete[]. *)
Release(m, next) ==
  /\ pc = m
  /\ \/ /\ Right(m) /\ pc' = next
        /\ object' = [object EXCEPT ![m] = "released"]
        /\ UNCHANGED <<ptr, held, history, reply>>
     \/ Skipped(m) /\ GoesOn(next)
     \/ Misuse(m, next)
  /\ UNCHANGED <<connected, calls>>

(* The provider refuses what `step' asks for: DestroyConnection returns the *)
(* error and leaves the rest for another call.                              *)
Refused(step) ==
  /\ past' = past \union {step} /\ Finish("error")
  /\ UNCHANGED <<owned, abandoned, misused>>
=============================================================================

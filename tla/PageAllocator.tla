--------------------------- MODULE PageAllocator ---------------------------
(***************************************************************************)
(* What a page allocator promises its callers, independently of how it    *)
(* keeps its books: a caller's pointer variable is either empty or names a *)
(* page that nobody else can be given, and a page comes back only when the *)
(* caller that holds it hands it back.  Pmm implements this.               *)
(***************************************************************************)
CONSTANTS Handles,  \* the callers' pointer variables
          NULL      \* the empty pointer

VARIABLES online,   \* has the allocator been initialised?
          free,     \* the pages that may be handed out
          tmp       \* tmp[h]: the page caller variable h points to, or NULL

vars == <<online, free, tmp>>

Held == {tmp[h] : h \in Handles} \ {NULL}

Init ==
  /\ online = FALSE
  /\ free = {}
  /\ tmp = [h \in Handles |-> NULL]

\* Initialisation publishes the pages, once.
Publish ==
  /\ ~online
  /\ online' = TRUE
  /\ NULL \notin free'
  /\ UNCHANGED tmp

Acquire(h) ==
  /\ online
  /\ tmp[h] = NULL
  /\ \E page \in free :
       /\ free' = free \ {page}
       /\ tmp' = [tmp EXCEPT ![h] = page]
  /\ UNCHANGED online

\* A request may be refused only when no page is left.
Refuse(h) ==
  /\ online
  /\ tmp[h] = NULL
  /\ free = {}
  /\ UNCHANGED vars

Release(h) ==
  /\ online
  /\ tmp[h] # NULL
  /\ free' = free \cup {tmp[h]}
  /\ tmp' = [tmp EXCEPT ![h] = NULL]
  /\ UNCHANGED online

\* A caller that forgets its pointer loses the page for good.
Forget(h) ==
  /\ tmp[h] # NULL
  /\ tmp' = [tmp EXCEPT ![h] = NULL]
  /\ UNCHANGED <<online, free>>

Next ==
  \/ Publish
  \/ \E h \in Handles : Acquire(h) \/ Refuse(h) \/ Release(h) \/ Forget(h)

Spec == Init /\ [][Next]_vars
============================================================================

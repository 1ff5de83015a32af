---------------------------- MODULE AshmemPages ----------------------------
(***************************************************************************)
(* What ashmem promises the users of an area.  A user may give pages away  *)
(* (unpin) and ask for them back (pin).  Pages that are given away may be  *)
(* discarded at any time; pages that are not are never touched; and the    *)
(* answer to a pin says whether one of its pages was discarded.            *)
(***************************************************************************)
CONSTANTS Areas, Pages

VARIABLES
  given,     \* area -> pages the user has unpinned
  discarded, \* area -> pages whose contents are gone
  answer     \* was the answer to the last call that pages were purged

pagesVars == <<given, discarded, answer>>

PagesInit ==
  /\ given = [a \in Areas |-> {}]
  /\ discarded = [a \in Areas |-> {}]
  /\ answer = FALSE

Only(a, var, new) == \A b \in Areas \ {a} : new[b] = var[b]

Give(a) ==
  /\ given' \in [Areas -> SUBSET Pages]
  /\ given[a] \subseteq given'[a] /\ Only(a, given, given')
  /\ UNCHANGED discarded /\ answer' = FALSE

(* The answer may be too cautious but never too hopeful.                   *)
TakeBack(a) ==
  /\ given' \in [Areas -> SUBSET Pages]
  /\ given'[a] \subseteq given[a] /\ Only(a, given, given')
  /\ discarded' = [discarded EXCEPT ![a] = @ \cap given'[a]]
  /\ answer' \in BOOLEAN
  /\ discarded' # discarded => answer'

Discard ==
  /\ discarded' \in [Areas -> SUBSET Pages]
  /\ \A a \in Areas : /\ discarded[a] \subseteq discarded'[a]
                      /\ discarded'[a] \subseteq discarded[a] \cup given[a]
  /\ UNCHANGED given /\ answer' = FALSE

Close(a) ==
  /\ given' = [given EXCEPT ![a] = {}]
  /\ discarded' = [discarded EXCEPT ![a] = {}]
  /\ answer' = FALSE

(* A call that is not about pins.                                          *)
Other == answer' = FALSE /\ UNCHANGED <<given, discarded>>

PagesNext ==
  \/ \E a \in Areas : Give(a) \/ TakeBack(a) \/ Close(a)
  \/ Discard
  \/ Other

PagesSpec == PagesInit /\ [][PagesNext]_pagesVars
=============================================================================

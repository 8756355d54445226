----------------------------- MODULE InstanceList -----------------------------
(***************************************************************************)
(* What following the instances of an application promises, without locks, *)
(* flags, pools or the sequence that choices go through: the list as the   *)
(* agent has it changes only by the application of an answer, as a whole;  *)
(* an answer is what the server knew when it answered and is applied at    *)
(* most once; an instance that is listed before and after keeps its        *)
(* CheckInsData, and none is ever listed again after it has been dropped.  *)
(* CheckApp implements this specification.                                 *)
(***************************************************************************)
CONSTANTS
  InsIds, Endpoints, None,
  Threads,   \* threads that refresh
  Numbers    \* what tells the CheckInsData of an instance id apart

VARIABLES
  registry,  \* what the server knows: an endpoint or None for each instance id
  answer,    \* per thread: the answer it has yet to apply, or None
  list,      \* for each instance id its endpoint and number, or None
  used       \* for each instance id the numbers that have been listed

listVars == <<registry, answer, list, used>>

Registry == [InsIds -> Endpoints \cup {None}]

ListInit ==
  /\ registry \in Registry
  /\ answer = [t \in Threads |-> None]
  /\ list = [i \in InsIds |-> None]
  /\ used = [i \in InsIds |-> {}]

Change ==
  /\ registry' \in Registry
  /\ UNCHANGED <<answer, list, used>>

\* The query of thread t is answered.
Answer(t) ==
  /\ answer[t] = None
  /\ answer' = [answer EXCEPT ![t] = registry]
  /\ UNCHANGED <<registry, list, used>>

\* What becomes of instance i if its endpoint is e in the answer.
Entry(i, e, new) ==
  CASE e = None                   -> new = None
    [] e # None /\ list[i] # None -> new = [ep |-> e, number |-> list[i].number]
    [] OTHER                      -> \E n \in Numbers \ used[i] : new = [ep |-> e, number |-> n]

Apply(t) ==
  /\ answer[t] # None
  /\ list' \in [InsIds -> {None} \cup [ep : Endpoints, number : Numbers]]
  /\ \A i \in InsIds : Entry(i, answer[t][i], list'[i])
  /\ used' = [i \in InsIds |-> used[i] \cup (IF list'[i] = None THEN {} ELSE {list'[i].number})]
  /\ answer' = [answer EXCEPT ![t] = None]
  /\ UNCHANGED registry

ListNext == Change \/ \E t \in Threads : Answer(t) \/ Apply(t)

ListSpec == ListInit /\ [][ListNext]_listVars
===============================================================================

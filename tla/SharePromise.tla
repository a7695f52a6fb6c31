---------------------------- MODULE SharePromise ----------------------------
(***************************************************************************)
(* What the service promises about a share, without saying how: once its   *)
(* link has been handed out it can be fetched at most as often as agreed,  *)
(* it is taken away only for a reason (its time is up, its budget is       *)
(* spent, its owner asked), and it never comes back.                       *)
(*                                                                         *)
(* Taking a share away has two parts, in this order: Close removes the     *)
(* ciphertext, Forget the record of it.  In between, a slot of the budget  *)
(* can still be taken although there is nothing left to fetch.             *)
(***************************************************************************)
EXTENDS Integers

CONSTANTS
  Id,
  Budgets,   \* the download budgets a share may be given
  Lifetimes  \* the lifetimes a share may be given

VARIABLES
  clock,
  phase,     \* phase[id]: "none", "live", "closing" or "gone"
  budget,    \* budget[id]: the downloads promised to the uploader
  left,      \* left[id]: slots of the budget not yet taken
  served,    \* served[id]: slots handed to a downloader
  deadline,  \* deadline[id]: the time the share's record expires, while it has one
  revoked    \* the shares whose owner asked for them to be deleted

promiseVars == <<clock, phase, budget, left, served, deadline, revoked>>

PromiseInit ==
  /\ clock = 0
  /\ phase = [id \in Id |-> "none"]
  /\ budget = [id \in Id |-> 0]
  /\ left = [id \in Id |-> 0]
  /\ served = [id \in Id |-> 0]
  /\ deadline = [id \in Id |-> 0]
  /\ revoked = {}

Publish(id) ==
  /\ phase[id] = "none"
  /\ \E b \in Budgets, l \in Lifetimes :
       /\ budget' = [budget EXCEPT ![id] = b]
       /\ left' = [left EXCEPT ![id] = b]
       /\ deadline' = [deadline EXCEPT ![id] = clock + l]
  /\ phase' = [phase EXCEPT ![id] = "live"]
  /\ UNCHANGED <<clock, served, revoked>>

Held(id) == phase[id] \in {"live", "closing"}

(* A slot goes to a downloader. *)
Grant(id) ==
  /\ Held(id)
  /\ left[id] > 0
  /\ left' = [left EXCEPT ![id] = @ - 1]
  /\ served' = [served EXCEPT ![id] = @ + 1]
  /\ UNCHANGED <<clock, phase, budget, deadline, revoked>>

(* A slot is used up but the answer that grants it is lost. *)
Waste(id) ==
  /\ Held(id)
  /\ left[id] > 0
  /\ left' = [left EXCEPT ![id] = @ - 1]
  /\ UNCHANGED <<clock, phase, budget, served, deadline, revoked>>

Revoke(id) ==
  /\ Held(id)
  /\ revoked' = revoked \cup {id}
  /\ UNCHANGED <<clock, phase, budget, left, served, deadline>>

Cause(id) == clock >= deadline[id] \/ left[id] = 0 \/ id \in revoked

Close(id) ==
  /\ phase[id] = "live"
  /\ Cause(id)
  /\ phase' = [phase EXCEPT ![id] = "closing"]
  /\ UNCHANGED <<clock, budget, left, served, deadline, revoked>>

Forget(id) ==
  /\ phase[id] = "closing"
  /\ phase' = [phase EXCEPT ![id] = "gone"]
  /\ left' = [left EXCEPT ![id] = 0]
  /\ deadline' = [deadline EXCEPT ![id] = 0]
  /\ UNCHANGED <<clock, budget, served, revoked>>

Pass == clock' = clock + 1 /\ UNCHANGED <<phase, budget, left, served, deadline, revoked>>

PromiseNext ==
  \/ \E id \in Id : \/ Publish(id) \/ Grant(id) \/ Waste(id) \/ Revoke(id)
                    \/ Close(id) \/ Forget(id)
  \/ Pass

Spec == PromiseInit /\ [][PromiseNext]_promiseVars
=============================================================================

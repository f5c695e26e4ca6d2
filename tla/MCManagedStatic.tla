--------------------------- MODULE MCManagedStatic ---------------------------
(***************************************************************************)
(* Three statics for checking ManagedStatic, in each way they may use one  *)
(* another: a constructor needs another static, which needs a third; a     *)
(* destructor wants what may be gone, and is made anew; both; neither.     *)
(***************************************************************************)
EXTENDS ManagedStatic

CONSTANTS x, y, z

Nothing == [s \in Static |-> {}]

SomePrograms ==
  { [needs |-> [Nothing EXCEPT ![x] = {y}, ![y] = {z}], wants |-> Nothing],
    [needs |-> [Nothing EXCEPT ![x] = {y, z}], wants |-> [Nothing EXCEPT ![z] = {y}]],
    [needs |-> [Nothing EXCEPT ![y] = {z}], wants |-> [Nothing EXCEPT ![x] = {y}]],
    [needs |-> Nothing, wants |-> [Nothing EXCEPT ![x] = {y}, ![y] = {z}]] }

=============================================================================

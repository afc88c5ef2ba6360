------------------------------ MODULE BackEnd ------------------------------
(***************************************************************************)
(* What the cipher and authentication back ends (crypto/cipher/*.c and      *)
(* crypto/hash/*.c) have in common.  A context is a record; besides the     *)
(* fields of its kind it has                                                *)
(*   held    the memory and the library's objects it owns                   *)
(*   status  what the last call on it returned                              *)
(*   out     what that call wrote                                           *)
(* A call takes a context to a context.                                     *)
(***************************************************************************)
EXTENDS Naturals, Sequences

CONSTANTS
  None,   \* nothing, a null pointer
  Junk    \* what a failed call of the library may have left behind

Return(c, status) == [c EXCEPT !.status = status]

(* The next call, made only if the one before returned ok. *)
Then(c, next) == IF c.status = "ok" THEN next ELSE c

(* An alloc function takes one thing after the other.  When it cannot have  *)
(* one it returns a status, after it released what its error path names.    *)
Take(thing, status, undo) ==
  [thing |-> thing, status |-> status, undo |-> undo]

(* srtp_crypto_alloc() *)
Memory(thing, undo) == Take(thing, "alloc_fail", undo)

(* The call that takes `steps` in order, of which number k fails (0: none). *)
Acquire(fresh, steps, k) ==
  IF k \notin DOMAIN steps
  THEN [fresh EXCEPT !.held = {steps[i].thing : i \in DOMAIN steps}]
  ELSE [fresh EXCEPT !.held = {steps[i].thing : i \in 1..k - 1} \ steps[k].undo,
                     !.status = steps[k].status]

Release(c, things) == [c EXCEPT !.held = @ \ things]
=============================================================================

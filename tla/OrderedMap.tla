----------------------------- MODULE OrderedMap -----------------------------
(***************************************************************************)
(* What a BPlusTree promises (spec 8): a map from keys to values where    *)
(* Insert of a present key and Update of an absent key return false and   *)
(* change nothing, and Delete/Take remove a key and return its value.     *)
(* `call` is the last call with its arguments and `ret` its result, so   *)
(* every step is the operation that was called and returns what that    *)
(* operation must return.                                                 *)
(***************************************************************************)
CONSTANTS Keys, Vals, NoVal

VARIABLES kv, ret, call

Present(k) == kv[k] # NoVal

AInsert(k, v) ==
  /\ call' = <<"Insert", k, v>>
  /\ IF Present(k) THEN ret' = FALSE /\ UNCHANGED kv
     ELSE kv' = [kv EXCEPT ![k] = v] /\ ret' = TRUE

AUpdate(k, v) ==
  /\ call' = <<"Update", k, v>>
  /\ IF Present(k) THEN kv' = [kv EXCEPT ![k] = v] /\ ret' = TRUE
     ELSE ret' = FALSE /\ UNCHANGED kv

\* Take returns the removed value, or NoVal when the key is absent.
ATake(k) ==
  /\ call' = <<"Take", k>>
  /\ kv' = [kv EXCEPT ![k] = NoVal]
  /\ ret' = kv[k]

\* Destroy drops every pair and returns nothing.
ADestroy ==
  /\ call' = <<"Destroy">>
  /\ kv' = [k \in Keys |-> NoVal]
  /\ UNCHANGED ret

AInit ==
  /\ kv = [k \in Keys |-> NoVal]
  /\ ret = FALSE
  /\ call = <<"Create">>

ANext ==
  \E k \in Keys :
    \/ \E v \in Vals : AInsert(k, v) \/ AUpdate(k, v)
    \/ ATake(k)
  \/ ADestroy

ASpec == AInit /\ [][ANext]_<<kv, ret, call>>
=============================================================================

---------------------------- MODULE StackMachine ----------------------------
(***************************************************************************)
(* The run-time stack (class StackMachine) as operators on the sequence of *)
(* its values, bottom first.  Indices count from 0, as in the C++: the     *)
(* value at index i is element i + 1 of the sequence.  An operation that   *)
(* throws has a predicate saying when it does not.                         *)
(*                                                                         *)
(* A size_t that received a negative int wraps modulo SizeModulus; AsSize  *)
(* and AsInt are the two static_casts, Register what a size_t that got its *)
(* value from an int may hold.                                             *)
(***************************************************************************)
EXTENDS RuntimeValue

CONSTANTS
  MaxStackSize,   \* MAX_STACK_SIZE
  SizeModulus     \* the number of values of a size_t

ASSUME StackAssumption ==
  /\ MaxStackSize \in Nat /\ 3 <= MaxStackSize /\ MaxStackSize <= IntMax
  /\ SizeModulus \in Nat /\ SizeModulus > 4 * (IntMax + 1)

Register == 0 .. IntMax \cup SizeModulus + IntMin .. SizeModulus - 1

AsSize(n) == IF n >= 0 THEN n ELSE SizeModulus + n
AsInt(s)  == IF s > IntMax THEN s - SizeModulus ELSE s

(* int addition of a frame base and an offset wraps around.                *)
WrapInt(n) == ((n - IntMin) % (IntMax - IntMin + 1)) + IntMin

Within(stk, i) == 0 <= i /\ i < Len(stk)
At(stk, i)     == stk[i + 1]
SetAt(stk, i, v) == [stk EXCEPT ![i + 1] = v]

HasRoom(stk, n) == Len(stk) + n <= MaxStackSize
Holds2(stk)     == Len(stk) >= 2

Top(stk)    == stk[Len(stk)]
Second(stk) == stk[Len(stk) - 1]
PopTo(stk, n)   == SubSeq(stk, 1, n)
Popped(stk, n)  == PopTo(stk, Len(stk) - n)

(* walkStaticChain.  The link of a frame is in its slot 0; it must be an   *)
(* Integer that points below the frame.  NoFrame when a step throws.       *)
NoFrame == -1

StaticLink(stk, base) ==
  IF Within(stk, base) /\ IsInteger(At(stk, base)) /\ At(stk, base).num \in 0 .. base - 1
  THEN At(stk, base).num
  ELSE NoFrame

WalkStaticChain(stk, base, levels) ==
  LET frame[k \in 0 .. levels] ==
        IF k = 0 THEN base
        ELSE IF frame[k - 1] = NoFrame THEN NoFrame
        ELSE StaticLink(stk, frame[k - 1])
  IN  frame[levels]

(* The walk does not throw; a step of it leads into the stack.             *)
FrameFound(stk, base, levels) ==
  WalkStaticChain(stk, base, levels) \in
    IF levels = 0 THEN {base} ELSE 0 .. Len(stk) - 1

=============================================================================

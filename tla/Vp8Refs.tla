------------------------------- MODULE Vp8Refs -------------------------------
(***************************************************************************)
(* What the reference frames of a VP8 decoder are, without the buffers     *)
(* they are kept in: three pictures, replaced as the flags in the header   *)
(* of a frame say, by the application, or by nothing at all when a frame   *)
(* cannot be decoded.  `event' is what is seen from outside: the call and  *)
(* the flags in the data it was given.  Vp8Decoder implements this.        *)
(***************************************************************************)
EXTENDS Integers

CONSTANTS Pictures,   \* whatever a buffer can hold
          Blank       \* what it holds before anything is decoded into it

VARIABLES event, last, golden, altref

refs == <<last, golden, altref>>

\* A frame p is decoded.  The alternate reference is copied first, so a golden
\* frame copied from it gets the new one.  A copy flag of 3 names no source.
Frame(p, f) ==
  \E other \in Pictures :
    LET Copied(flag, own, fromOther) ==
          IF flag = 0 THEN own
          ELSE IF flag = 1 THEN last
          ELSE IF flag = 2 THEN fromOther ELSE other
        arf == Copied(f.toArf, altref, golden)
        gf  == Copied(f.toGf, golden, arf)
    IN
    /\ golden' = IF f.golden THEN p ELSE gf
    /\ altref' = IF f.alt THEN p ELSE arf
    /\ last' = IF f.last THEN p ELSE last

\* VP8_SET_REFERENCE
SetReference(p, ref) ==
  /\ last' = IF ref = "lst" THEN p ELSE last
  /\ golden' = IF ref = "gld" THEN p ELSE golden
  /\ altref' = IF ref = "alt" THEN p ELSE altref

\* New buffers for another frame size.
Reset == last' = Blank /\ golden' = Blank /\ altref' = Blank

Init == last = Blank /\ golden = Blank /\ altref = Blank

Next == \/ event'.op = "frame" /\ Frame(event'.pic, event'.flags)
        \/ event'.op = "set" /\ SetReference(event'.pic, event'.ref)
        \/ event'.op = "reset" /\ Reset
        \/ event'.op = "fail" /\ UNCHANGED refs

Spec == Init /\ [][Next]_<<event, refs>>
=============================================================================

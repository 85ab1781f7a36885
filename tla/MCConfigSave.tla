---------------------------- MODULE MCConfigSave ----------------------------
(***************************************************************************)
(* Two keys; a body adds, keeps, replaces or removes each of them.  The    *)
(* first start finds the template, or a key without a token.               *)
(***************************************************************************)
EXTENDS ConfigSave
CONSTANTS h1, h2, k1, k2, t1, t2, i1, i2, i3, i4, i5

Body(a, b) == [k \in Keys |-> IF k = k1 THEN a ELSE b]

MCBodies ==
    {Body(t1, None), Body(t2, Blank), Body(Blank, t2), Body(Blank, Blank), Body(None, Blank)}

MCFirst == {Body(None, None), Body(None, Blank)}
=============================================================================

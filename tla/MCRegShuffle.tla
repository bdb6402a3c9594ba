---------------------------- MODULE MCRegShuffle ----------------------------
(* Small register files: integer registers below MCLastInt with the last   *)
(* one reserved, float registers above it likewise.                        *)
EXTENDS RegShuffle

CONSTANT MaxArgs  \* longest argument list

Usable == Reg \ {ScratchInt, ScratchFloat}

Moves == {m \in [src : Usable, dst : Usable] : Scratch(m.src) = Scratch(m.dst)}

\* every list of at most MaxArgs moves the register allocator may ask for
MCArgLists == {a \in UNION {[1..k -> Moves] : k \in 0..MaxArgs} : ArgsOK(a)}
=============================================================================

--------------------------- MODULE LoweredBodies ----------------------------
(* What codegen lowers of a body, in one state: a match (MatchCompiler) and  *)
(* a path of constructs down to one jump (JumpLowering).                     *)
EXTENDS MatchCompiler

CONSTANT MaxDepth      \* bound: constructs above the jump

VARIABLES prog, unit, others, at, out,
          progress     \* JumpLowering's verdict

Paths == INSTANCE JumpLowering WITH verdict <- progress

(* A break or continue leaves or resumes the loop it is written in          *)
(* (JumpLowering).                                                          *)
JumpHitsItsLoop == Paths!JumpHitsItsLoop

(* A return, or the bail of a try, leaves the frame it is written in        *)
(* (JumpLowering).                                                          *)
ReturnLeavesItsFrame == Paths!ReturnLeavesItsFrame
=============================================================================

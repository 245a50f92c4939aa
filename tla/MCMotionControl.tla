-------------------------- MODULE MCMotionControl --------------------------
(* Model checking Orientation: see MotionControl.cfg.                       *)
EXTENDS Orientation

\* A drag along both axes, one along one of them, and the finger at rest.
\* 3 takes two ticks of the timer to fade at a deceleration of 2.
MCDrags == {[pan |-> 3, tilt |-> -3], [pan |-> 0, tilt |-> 3], [pan |-> 0, tilt |-> 0]}

\* How a device can be held on a dock: either way of panning, and portrait,
\* where tilt is ignored.
OnTheDock == {"LandscapeLeft", "FaceUp", "Portrait"}
=============================================================================

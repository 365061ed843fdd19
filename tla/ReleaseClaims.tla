--------------------------- MODULE ReleaseClaims ----------------------------
(***************************************************************************)
(* What the documents say of the lift, where the code does something else. *)
(***************************************************************************)
EXTENDS Release

\* README.md:17, "Starts cursor inertia after a qualifying one-finger
\* movement".  BTN_TOUCH is handled before the coordinates of the new touch,
\* so the first sample is where the previous touch ended (touchpad.rs:503-509),
\* and the jump from there counts as movement: a finger that is put down and
\* hardly moves can start inertia.
StartNeedsMovement == verdict = "start" => walked >= MinDistance

=============================================================================

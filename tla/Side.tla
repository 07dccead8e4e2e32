-------------------------------- MODULE Side --------------------------------
(***************************************************************************)
(* What the components that PhoneParts, DesktopParts and ListParts put     *)
(* side by side have in common.                                            *)
(***************************************************************************)
CONSTANTS
  None,         \* no PC, no image, no version, no key, no phone
  MaxFailures,  \* bound: what fails, in one component
  MaxUnderWay   \* bound: commands and answers under way, in one component

VARIABLE
  part          \* the component that this behaviour is of
=============================================================================

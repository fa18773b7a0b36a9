-------------------------------- MODULE MCLedCtrl --------------------------------
(* Every command line of up to MaxOptions options, for TLC.                   *)
EXTENDS LedCtrl

CONSTANT MaxOptions

Option(opt, arg) == [opt |-> opt, arg |-> arg]
Options == {Option("f", NoArgument), Option("a", "link-up"), Option("A", NoArgument),
            Option("m", NoArgument), Option("m", "default"), Option("M", NoArgument),
            Option("d", NoArgument), Option("V", NoArgument), Option("h", NoArgument),
            Option("?", NoArgument)}
AllLines == UNION {[1..n -> Options] : n \in 0..MaxOptions}
================================================================================

---------------------------- MODULE MCFlashTool ----------------------------
EXTENDS FlashTool

\* The fourth image reaches into the last sector of the flash.
MCJobs == {[tool |-> "flash", ids |-> <<1>>, dropped |-> {}],
           [tool |-> "flash", ids |-> <<1, 2>>, dropped |-> {}],
           [tool |-> "flash", ids |-> <<1, 1>>, dropped |-> {}],
           [tool |-> "flash", ids |-> <<1>>, dropped |-> {2}],
           [tool |-> "write_config", ids |-> <<1, 2>>, dropped |-> {}],
           [tool |-> "change_id", ids |-> <<1>>, dropped |-> {}]}
=============================================================================

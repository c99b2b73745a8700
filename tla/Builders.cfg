\* The program stops after MaxCalls calls.
SPECIFICATION OptionsSpec
CONSTANTS
    Given = {"x"}
    MaxCalls = 4
PROPERTIES OthersKept AddedIsUsable
CHECK_DEADLOCK FALSE

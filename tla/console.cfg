SPECIFICATION ConsoleSpec
CONSTANTS
    Scripts <- MCScripts
    MaxSources = 2
    MaxClicks = 2
INVARIANTS OverMeansWhole
PROPERTIES StoppedIsSilent ButtonComesBack

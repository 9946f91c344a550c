SPECIFICATION FairSpec
CONSTANTS
    Flows = {f1, f2}
    Main = main
    Children = {k1, k2}
    Options <- StartedOrForking
    MaxEntries = 2
    ToSave = 0
    Header = header
    Faults = {"pcap", "fork", "open", "header"}
    MaxFiles = 2
    MaxPackets = 3
    MaxEvents = 1
    MaxRounds = 1
CHECK_DEADLOCK FALSE
INVARIANTS DumpTypeOK SlotsFree Accounted ReadToTheEnd
PROPERTIES DumpServed

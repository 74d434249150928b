SPECIFICATION ShortcutSpec
CONSTANTS
    Tab = {t1, t2}
    NoTab = NoTab
    MaxNav = 4
    mine = mine
    other = other
    Profile = {mine, other}
    Window = {"run", "popup", "other"}
    NoWindow = NoWindow
    Owner <- MyWindows
    NormalWindow = {"run", "other"}
    DockedWindow = {"run"}
    Chord = {"reload", "back", "forward", "toggle", "refresh", "spare", "menu", "bare"}
    Plausible = {"reload", "back", "forward", "toggle", "refresh", "spare", "menu"}
    NoBinding = NoBinding
    Unreadable = Unreadable
    DefaultChord <- ShippedChords
    MenuChord = {"menu"}
    RunWindow = "run"
    InitialBindings <- LeftBehind
    FeatureSets <- OneFlagOff
    Requests <- Asked
SYMMETRY Symmetry
INVARIANTS
    RunInv
    ShortcutInv
    NoPressIsWasted
PROPERTIES
    SettlesOnlyOurs
    NoSettleMissed
    NoNewConflicts

SPECIFICATION RunSpec
CONSTANTS
    Parts = {"layers", "elements", "list", "rows", "tree", "flat", "cacher", "jobs",
             "analyser", "apps", "toasts", "blobs", "drift"}
    free = free
    shared = shared
    v = v
    left = left
    right = right
    n1 = n1
    n2 = n2
    n3 = n3
    n4 = n4
    a = a
    b = b
    walls = walls
    other = other
    sub = sub
    wall = wall
    text = text
    q1 = q1
    q2 = q2
    j1 = j1
    j2 = j2
    red = red
    green = green
    blue = blue
    grey = grey
    browser = browser
    browserAgain = browserAgain
    editor = editor
    disk = disk
    Ids = {1, 2}
    DesktopEntries = {browser, browserAgain, editor}
    IdOf <- BrowserTwice
    Paths = {disk}
    Unset = Unset
    Memory = Memory
    MaxStarts = 1
    charger = charger
    layout = layout
    battery = battery
    None = None
    Nodes = {n1, n2, n3, n4}
    ElementValues = {Default, v}
    ElementDefault = Default
    MaxLength = 3
    FileContents = {wall, other}
    Broken = {}
    ImageFiles = {red, green, blue, grey, text}
    Icons = {red, green, text}
    NoImages = {text}
    Blank = Blank
    MaxGrabs = 2
    Requests = {q1, q2}
    Jobs = {j1, j2}
    Nothing = Nothing
    SavesFail = TRUE
    Toasts = {charger, layout, battery}
    Important = {battery}
    ToastScreens = {left, right}
    MaxToasts = 1
    ScreenModes = {"all", "important"}
    Shared = Shared
    Screens = {left, right}
    Options = {free, shared}
    Lists = {}
    GlobalOnly = {shared}
    Values = {Default, v}
    Default = Default
    Absent = Absent
    Bad = Bad
    Edits <- FewEdits
    MaxEdits = 1
SYMMETRY Interchangeable
INVARIANTS
    LayersAgree
    SettingsAreShared
    ItemsAreRight
    ImagesAreRight
    ColoursAreRight
    AppsAreRight
    ToastsAreRight
PROPERTIES
    OverridesStay
    NothingGoesEarly
CHECK_DEADLOCK FALSE

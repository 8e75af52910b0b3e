SPECIFICATION FairSpec
CONSTANTS
    Parts = {"lyrics", "audio", "collector", "cava", "compositor", "gpu", "disks",
             "list", "tree", "cacher", "analyser", "toasts",
             "blobs"}
    s1 = s1
    s2 = s2
    cava = cava
    beat = beat
    r1 = r1
    laptop = laptop
    us = us
    Main = Main
    a = a
    b = b
    walls = walls
    sub = sub
    wall = wall
    text = text
    q1 = q1
    j1 = j1
    j2 = j2
    red = red
    green = green
    blue = blue
    left = left
    charger = charger
    layout = layout
    battery = battery
    None = None
PROPERTIES
    ServicesGoOn
    ViewsGoOn
CHECK_DEADLOCK FALSE

\* One listing at a time on a volume with directories of the same name.
CONSTANTS
    Listers = {g1}
    Names <- FileNames
    Dirs <- TwinDirs
    Links <- TwinLinks
    Followed = {}
    Chroot <- Mount
SPECIFICATION Spec
INVARIANT RightTarget
CHECK_DEADLOCK FALSE

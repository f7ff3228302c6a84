SPECIFICATION Spec
CONSTANTS
  Names <- DiskNames
  Pseudo = {"dm0", "md0"}
  Usb = {"sda"}
  Removable = {}
  Parts <- PartsOfDisk
  Named = {"dm0"}
  MountPoints = {root, data}
  None = None
  Parent = Parent
  MaxMounts = 2
  MaxChanges = 1
SYMMETRY MountPointSymmetry
INVARIANT
  UnmountedIsShown

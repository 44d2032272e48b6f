CONSTANTS
    Framebuffer = TRUE
    Loaded = {{"kernel", "initrd", "bootloader", "manager", "mini64"}, {"kernel", "initrd"}}
    MaxKeys = 2
    MaxRow = 60
SPECIFICATION Spec
INVARIANTS PromptShown

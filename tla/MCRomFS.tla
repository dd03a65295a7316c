------------------------------- MODULE MCRomFS -------------------------------
(* RomFS on the image of rom_fs/test.s.  Every name of the image, one that  *)
(* is nowhere and one that is only in the drawing of the tree; components   *)
(* of 16, 17, 19 and 20 characters, the last character such that the        *)
(* variable it overwrites is no inode, out of range, or 33, whose inode is  *)
(* the root again.  Two components are enough to fail at the second, and    *)
(* the deepest directory is two from the root.                              *)
EXTENDS RomFS

Inode(dir, uid, block) == [dir |-> dir, uid |-> uid, block |-> block]

Image ==
  << Inode(TRUE, 0, 0), Inode(FALSE, 1, 1), Inode(TRUE, 17, 5),
     Inode(TRUE, 17, 6), Inode(FALSE, 1, 8), Inode(TRUE, 17, 9) >>

Entry(inode, name) == [inode |-> inode, name |-> name]

Dirs ==
  [ b \in {0, 5, 6, 9} |->
      CASE b = 0 -> << Entry(1, "."), Entry(1, ".."), Entry(2, "Readme.txt"),
                       Entry(3, "ram"), Entry(4, "rom") >>
        [] b = 5 -> << Entry(3, "."), Entry(1, "..") >>
        [] b = 6 -> << Entry(4, "."), Entry(1, ".."), Entry(5, "romfs.txt"),
                       Entry(6, "bin") >>
        [] b = 9 -> << Entry(6, "."), Entry(4, "..") >> ]

Name(n) == [name |-> n, over |-> << >>]
Long(over) == [name |-> "long", over |-> over]

Components ==
  {Name(n) : n \in {".", "..", "Readme.txt", "ram", "rom", "romfs.txt",
                    "romFS.txt", "bin", "none"}}
    \cup {Long([currentInode |-> 0]), Long([currentInode |-> 97]),
          Long([currentInode |-> 97, workingDir |-> 0]),
          Long([currentInode |-> 97, workingDir |-> 97]),
          Long([currentInode |-> 33, workingDir |-> 33])}
=============================================================================

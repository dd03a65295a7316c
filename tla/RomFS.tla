------------------------------- MODULE RomFS -------------------------------
(***************************************************************************)
(* The file system that rom_fs/test.s builds in RAM, the path lookup of    *)
(* common_libs/test.s and the utilities cd, ls and pwd that use it.        *)
(*                                                                         *)
(* A path is walked one component a step.  The routines leave their state  *)
(* in memory from one command to the next, and that is the state here: the *)
(* inode of the walk, the working directory and the pointer WORK_PTR,      *)
(* which get_inode_ptr does not move for a number out of range.            *)
(*                                                                         *)
(* TOKEN_BUFFER takes a component of 15 characters.  The bytes behind it   *)
(* are variables of the walk; a component says what a longer one stores in *)
(* them.  What lies further, the display's variables at $0230, is out of   *)
(* reach of the components considered.                                     *)
(***************************************************************************)
EXTENDS Integers, SequencesExt

CONSTANTS
  Inodes,     \* inode number -> [dir, uid, block], zero elsewhere
  Blocks,     \* block number -> entries of the directory, empty elsewhere
  Component,  \* [name, over]: over is what is stored behind TOKEN_BUFFER
  MaxPath     \* bound on the components of a path

MaxInodes == 64
Root == 1

(* How a component that fits, and one that does not, is written.           *)
Fits(c) == c.over = << >>
Overrun == UNION {[V -> 0 .. 255] : V \in SUBSET {"currentInode", "workingDir"}}

ASSUME RomFSAssumption ==
  /\ Root \in DOMAIN Inodes
  /\ DOMAIN Inodes \subseteq 1 .. 31
  /\ \A c \in Component : Fits(c) \/ c.over \in Overrun
  /\ MaxPath \in Nat

Path == [absolute : BOOLEAN,
         components : UNION {[1 .. n -> Component] : n \in 0 .. MaxPath}]

VARIABLES
  workingDir,   \* WORKING_DIR_INODE
  currentInode, \* CURRENT_INODE
  workPtr,      \* the inode WORK_PTR points at
  util,         \* the utility that runs, "shell" when none does
  left,         \* the components not yet walked
  shown,        \* what the last utility printed
  from, path    \* history: the working directory and path it started with

fsVars == <<workingDir, currentInode, workPtr, util, left, shown, from, path>>

(* The working directory is a directory, or what a component too long for  *)
(* TOKEN_BUFFER has stored there.                                          *)
FsTypeOK ==
  /\ \/ workingDir \in DOMAIN Inodes /\ Inodes[workingDir].dir
     \/ \E c \in Component :
          "workingDir" \in DOMAIN c.over /\ workingDir = c.over["workingDir"]
  /\ currentInode \in 0 .. 255
  /\ workPtr \in 0 .. 31
  /\ util \in {"shell", "cd", "ls"}
  /\ left \in Seq(Component) /\ Len(left) <= MaxPath
  /\ from \in 0 .. 255 /\ path \in Path

Empty == [absolute |-> FALSE, components |-> << >>]

FsInit ==
  /\ workingDir = Root
  /\ currentInode = 0
  /\ workPtr = 0
  /\ util = "shell"
  /\ left = << >>
  /\ shown = << >>
  /\ from = Root /\ path = Empty

-----------------------------------------------------------------------------
(* common_libs                                                             *)

(* get_inode_ptr: the number shifted left four times in eight bits and the *)
(* carry of the last shift, so a number and the same plus 32 are one.      *)
InodePtr(n) == IF n < MaxInodes THEN n % 32 ELSE workPtr

(* Of a number that is no inode the table holds zeros.                     *)
IsDir(ptr) == ptr \in DOMAIN Inodes /\ Inodes[ptr].dir

(* scan_block: the inodes of the entries of that name, none for a block    *)
(* that was not written.                                                   *)
ScanBlock(block, name) ==
  LET entries == IF block \in DOMAIN Blocks THEN Blocks[block] ELSE << >>
  IN {entries[i].inode : i \in {j \in DOMAIN entries : entries[j].name = name}}

(* find_in_dir_block.  After the first block scan_block has left Y at 0,   *)
(* so the second block scanned is the one numbered like the owner of the   *)
(* directory, and the third read is the owner again, taken for an indirect *)
(* block: at the addresses computed for it no byte is a block number.      *)
FindInDirBlock(ptr, name) ==
  LET first == ScanBlock(Inodes[ptr].block, name)
  IN IF first # {} THEN first ELSE ScanBlock(Inodes[ptr].uid, name)

-----------------------------------------------------------------------------
(* The utilities                                                           *)

Start(utility) ==
  /\ util = "shell"
  /\ \E p \in Path :
       /\ path' = p
       /\ left' = p.components
       /\ currentInode' = IF p.absolute THEN Root ELSE workingDir
  /\ util' = utility
  /\ from' = workingDir
  /\ shown' = << >>
  /\ UNCHANGED <<workingDir, workPtr>>

StartCd == Start("cd")
StartLs == Start("ls")

(* start_pwd: the character '0' plus the number of the inode.              *)
Pwd ==
  /\ util = "shell"
  /\ shown' = <<(workingDir + 48) % 256>>
  /\ UNCHANGED <<workingDir, currentInode, workPtr, util, left, from, path>>

(* next_path_token on the next component c, and get_inode_ptr: what c      *)
(* stores behind TOKEN_BUFFER comes first.                                 *)
Overwritten(c, var, value) == IF var \in DOMAIN c.over THEN c.over[var] ELSE value

Token(c) ==
  /\ util # "shell"
  /\ left # << >> /\ c = Head(left)
  /\ workingDir' = Overwritten(c, "workingDir", workingDir)
  /\ workPtr' = InodePtr(Overwritten(c, "currentInode", currentInode))
  /\ UNCHANGED <<from, path>>

Finish(output) ==
  /\ util' = "shell"
  /\ left' = << >>
  /\ shown' = output

Found(c) == IF IsDir(workPtr') THEN FindInDirBlock(workPtr', c.name) ELSE {}

WalkOn ==
  \E c \in Component :
    /\ Token(c)
    /\ currentInode' \in Found(c)
    /\ left' = Tail(left)
    /\ UNCHANGED <<util, shown>>

(* Mutant: cd keeps the directory it came to before the one that failed.   *)
WalkFails_KeepsPlace ==
  \E c \in Component :
    /\ util # "shell"
    /\ left # << >> /\ c = Head(left)
    /\ workPtr' = InodePtr(Overwritten(c, "currentInode", currentInode))
    /\ Found(c) = {}
    /\ workingDir' = currentInode
    /\ currentInode' = Overwritten(c, "currentInode", currentInode)
    /\ Finish(IF util = "cd" THEN <<"cd_fail">> ELSE << >>)
    /\ UNCHANGED <<from, path>>

(* path_not_found of cd; ls prints nothing.                                *)
WalkFails ==
  \E c \in Component :
    /\ Token(c)
    /\ Found(c) = {}
    /\ currentInode' = Overwritten(c, "currentInode", currentInode)
    /\ Finish(IF util = "cd" THEN <<"cd_fail">> ELSE << >>)

(* The path has led somewhere.                                             *)
Arrived ==
  /\ left = << >>
  /\ workPtr' = InodePtr(currentInode)
  /\ UNCHANGED <<currentInode, from, path>>

(* Mutant: the working directory is set before its kind is known.          *)
CdArrives_AnyFile ==
  /\ util = "cd"
  /\ Arrived
  /\ workingDir' = currentInode
  /\ Finish(IF IsDir(workPtr') THEN <<"ok">> ELSE <<"cd_fail">>)

CdArrives ==
  /\ util = "cd"
  /\ Arrived
  /\ IF IsDir(workPtr')
       THEN workingDir' = currentInode /\ Finish(<<"ok">>)
       ELSE UNCHANGED workingDir /\ Finish(<<"cd_fail">>)

NamesIn(block) ==
  IF block \in DOMAIN Blocks
    THEN [i \in DOMAIN Blocks[block] |-> Blocks[block][i].name]
    ELSE << >>

(* Mutant: the first two entries are taken for . and .. and not printed.   *)
LsArrives_SkipsTwo ==
  /\ util = "ls"
  /\ Arrived
  /\ Finish(IF IsDir(workPtr') THEN Tail(Tail(NamesIn(Inodes[workPtr'].block)))
                               ELSE <<"FILE">>)
  /\ UNCHANGED workingDir

(* print_dir or print_file_info; i_block[1] of every directory is invalid. *)
(* The mode of a number that is no inode is zero, a file.                  *)
LsArrives ==
  /\ util = "ls"
  /\ Arrived
  /\ Finish(IF IsDir(workPtr') THEN NamesIn(Inodes[workPtr'].block) ELSE <<"FILE">>)
  /\ UNCHANGED workingDir

FsNext == StartCd \/ StartLs \/ Pwd \/ WalkOn \/ WalkFails \/ CdArrives \/ LsArrives

FsSpec == FsInit /\ [][FsNext]_fsVars

-----------------------------------------------------------------------------
(* Properties                                                              *)

(* The tree the image holds: the one the comment that ends rom_fs/test.s   *)
(* draws, but for the file of /rom, whose stored name (line 360) is        *)
(* romfs.txt where the drawing has romFS.txt.  The lookup compares byte    *)
(* for byte, so romFS.txt leads nowhere.                                   *)
Tree ==
  [ n \in {1, 3, 4, 6} |->
      CASE n = 1 -> [name \in {".", "..", "Readme.txt", "ram", "rom"} |->
                       CASE name = "Readme.txt" -> 2 [] name = "ram" -> 3
                         [] name = "rom" -> 4 [] OTHER -> 1]
        [] n = 3 -> [name \in {".", ".."} |-> IF name = "." THEN 3 ELSE 1]
        [] n = 4 -> [name \in {".", "..", "romfs.txt", "bin"} |->
                       CASE name = "." -> 4 [] name = ".." -> 1
                         [] name = "romfs.txt" -> 5 [] name = "bin" -> 6]
        [] n = 6 -> [name \in {".", ".."} |-> IF name = "." THEN 6 ELSE 4] ]

(* The image holds that tree: an entry is of an inode, the directories are *)
(* those of the tree, and the block of each lists what leads on from it,   *)
(* every name once.  The block numbered like the owner, which the lookup   *)
(* goes on to, was not written or is the directory's own.                  *)
ASSUME ImageAssumption ==
  /\ \A b \in DOMAIN Blocks : \A i \in DOMAIN Blocks[b] : Blocks[b][i].inode \in DOMAIN Inodes
  /\ DOMAIN Tree = {n \in DOMAIN Inodes : Inodes[n].dir}
  /\ \A n \in DOMAIN Tree :
       LET own == Inodes[n].block
       IN /\ own \in DOMAIN Blocks
          /\ DOMAIN Tree[n] = {Blocks[own][i].name : i \in DOMAIN Blocks[own]}
          /\ \A i \in DOMAIN Blocks[own] : Tree[n][Blocks[own][i].name] = Blocks[own][i].inode
          /\ \A i, j \in DOMAIN Blocks[own] : Blocks[own][i].name = Blocks[own][j].name => i = j
          /\ Inodes[n].uid \in DOMAIN Blocks => Inodes[n].uid = own

Nowhere == 0

(* Where a component leads from a place.                                   *)
Onward(n, c) ==
  IF n \in DOMAIN Tree /\ c.name \in DOMAIN Tree[n] THEN Tree[n][c.name] ELSE Nowhere

(* Where components lead from a place, and a path from a directory.        *)
LeadsOn(n, components) == FoldLeft(Onward, n, components)

Leads(start, p) == LeadsOn(IF p.absolute THEN Root ELSE start, p.components)

(* A path all of whose components fit, from a place the tree knows.        *)
SoundPath == /\ \A i \in DOMAIN path.components : Fits(path.components[i])
             /\ path.absolute \/ from \in DOMAIN Tree

(* cd goes where the path leads if that is a directory, and nowhere at all *)
(* otherwise, wherever on the way it fails and whatever commands with      *)
(* components too long for TOKEN_BUFFER have done to memory before.  So    *)
(* "at rom cd .. say not found but bring pwd to rom/bin", the bug report   *)
(* of cd_util/test.s, is not so in this code: .. in /rom leads to the root.*)
CdFollowsTheTree ==
  [][ (util = "cd" /\ util' = "shell" /\ SoundPath =>
        IF Leads(from, path) \in DOMAIN Tree
          THEN shown' = <<"ok">> /\ workingDir' = Leads(from, path)
          ELSE shown' = <<"cd_fail">> /\ workingDir' = from) ]_fsVars

(* Everything ls can print of a file or a directory.                       *)
Listed == {"FILE"} \cup UNION {DOMAIN Tree[n] : n \in DOMAIN Tree}

(* ls of a directory prints the names that lead on from it, each once, and *)
(* of a file FILE.  Of a path that leads nowhere it prints none of these,  *)
(* neither what is at the place where it came to a stop nor what an        *)
(* earlier command looked up.  The comments at ls_not_found and not_found  *)
(* have it print "not found", which this does not rule out; the code       *)
(* prints nothing.                                                         *)
LsShowsWhatIsThere ==
  [][ (util = "ls" /\ util' = "shell" /\ SoundPath =>
        LET n == Leads(from, path) IN
        CASE n \in DOMAIN Tree ->
               /\ {shown'[i] : i \in DOMAIN shown'} = DOMAIN Tree[n]
               /\ \A i, j \in DOMAIN shown' : shown'[i] = shown'[j] => i = j
          [] n = Nowhere -> \A i \in DOMAIN shown' : shown'[i] \notin Listed
          [] OTHER -> shown' = <<"FILE">>) ]_fsVars

=============================================================================

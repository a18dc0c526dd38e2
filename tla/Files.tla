------------------------------- MODULE Files -------------------------------
(***************************************************************************)
(* The file layer under the system calls of the one process: openat and    *)
(* its descriptors, mkdir, mknod, read, write, and lmod as far as a module *)
(* registers a driver.  A call walks a path first, step by step as in      *)
(* WalkPath, and then acts on what the walk returned.                      *)
(*                                                                         *)
(* The mode panic stands for a page fault of the kernel, on NULL or on the *)
(* members of NULL, whose handler panics.  In the mode wild the code has   *)
(* written or read past a table, and nothing is known of what it does.     *)
(*                                                                         *)
(* Memory of kmalloc is blank, which the code needs and kmalloc has no     *)
(* step for.  What is read or written is left out.                         *)
(***************************************************************************)
EXTENDS WalkPath

CONSTANTS
  FD_MAX, GFID_MAX,     \* sizes of fdtable and of gfids
  RootChildren,         \* size of the root's array of children,
  CHILD_MAX,            \* and of that of another directory
  Majors,               \* the majors asked for
  Fds,                  \* the descriptors asked for; some may be no index
  Names                 \* what the program may write over a path it passed

(***************************************************************************)
(* A node has besides its operations, and for a device its major, for the  *)
(* file of a module the major that the module registers, and whether its   *)
(* name lies in the program's memory.                                      *)
(***************************************************************************)
VfsNode ==
  [type : {"VFS_DIR", "VFS_FILE", "VFS_SYM", "VFS_CDEV"}, name : Strings,
   parent : Nat, children : Seq(Nat), symlink : Strings,
   fops : {"tar_fops", "chrdev", "NULL"}, major : Nat, module : Nat,
   user : BOOLEAN]

\* The places of a directory's array of children.
Room(dir) == IF dir = Root THEN RootChildren ELSE CHILD_MAX

(***************************************************************************)
(* The trees at the start are those of an archive that fits the arrays,    *)
(* numbered in the order in which its nodes were made, as in TarFs.        *)
(***************************************************************************)
ASSUME FilesAssumption ==
  /\ FD_MAX \in Nat \ {0} /\ GFID_MAX \in Nat \ {0}
  /\ RootChildren \in Nat /\ CHILD_MAX \in Nat
  /\ Majors \subseteq Nat \ {0} /\ Fds \subseteq Int
  /\ Names \subseteq Strings
  /\ \A t \in Trees :
       /\ t \in Seq(VfsNode)
       /\ \A n \in DOMAIN t :
            /\ n # Root => t[n].parent < n
            /\ Len(t[n].children) <= Room(n)
            /\ t[n].fops = "tar_fops"
            /\ t[n].module \in Majors \union {NULL}

VARIABLES
  fdtable,          \* of the process: gfids, 0 where nothing was opened
  n_fds,
  gfids,            \* the node of each open file, NULL where there is none
  n_gfids,
  chrdev_handlers,  \* the majors whose driver is registered
  sys,              \* the call in progress; sys.op is "user" without one
  rax,              \* what the last call returned
  mode              \* "run", "panic" or "wild"

fvars == <<tree, call, walks, result, fdtable, n_fds, gfids, n_gfids,
           chrdev_handlers, sys, rax, mode>>
walkVars == <<call, walks, result>>
tables == <<fdtable, n_fds, gfids, n_gfids>>

Walkers == {"open", "mkdir", "mknod", "lmod"}     \* the calls with a path
cwd == Root       \* nothing changes the directory of the process
InUser == [op |-> "user", path |-> <<>>, fd |-> 0, major |-> 0]

FilesInit ==
  /\ WalkInit
  /\ fdtable = [i \in 0 .. FD_MAX - 1 |-> 0]
  /\ n_fds = 0
  /\ gfids = [i \in 0 .. GFID_MAX - 1 |-> NULL]
  /\ n_gfids = 1
  /\ chrdev_handlers = {}
  /\ sys = InUser
  /\ rax = "none"
  /\ mode = "run"

-----------------------------------------------------------------------------
(***************************************************************************)
(* get_basename: from the last slash that is not the last character, with  *)
(* it, or all of the path.  get_dirname: what is before that.              *)
(***************************************************************************)
memrchr(p, c) == SelectLastInSeq(p, LAMBDA d : d = c)
BaseAt(p) == LET i == memrchr(Front(p), Slash) IN IF i = 0 THEN 1 ELSE i
Basename(p) == SubSeq(p, BaseAt(p), Len(p))
Dirname(p) == SubSeq(p, 1, BaseAt(p) - 1)

(***************************************************************************)
(* The start of a call.  sys_mknod takes the name after the first          *)
(* character of the basename, slash or not, and does not copy it.          *)
(***************************************************************************)
Idle == mode = "run" /\ sys.op = "user"

Begin(op, p, walked, fd, major) ==
  /\ Idle
  /\ sys' = [op |-> op, path |-> p, fd |-> fd, major |-> major]
  /\ WalkPath(cwd, walked)
  /\ UNCHANGED <<tables, chrdev_handlers, rax, mode>>

SysOpen(p)  == Begin("open", p, p, n_fds, 0)
SysMkdir(p) == Begin("mkdir", p, p, 0, 0)
SysLmod(p)  == Begin("lmod", p, p, 0, 0)
SysMknod(p, major) ==
  p # <<>> /\ Begin("mknod", Tail(Basename(p)), Dirname(p), 0, major)

\* The end of a call, with it of what its walk returned; and its ways not
\* to end.
Return(value) ==
  /\ sys' = InUser /\ rax' = value
  /\ call' = NoCall /\ result' = NULL
  /\ UNCHANGED <<walks, mode>>
Panic == mode' = "panic" /\ UNCHANGED <<sys, rax>>
GoWild == mode' = "wild" /\ UNCHANGED <<sys, rax>>

(***************************************************************************)
(* A pointer at USER_END or above, in any call with one; or no such call.  *)
(* Nothing more is asked of a pointer: on one below where nothing is       *)
(* mapped, NULL among them, the call faults when it measures the path or   *)
(* comes to copy what an open file is to read or write.                    *)
(***************************************************************************)
Refuse ==
  /\ Idle
  /\ \E e \in {"E_INVPTR", "E_NOSYS"} : Return(e)
  /\ UNCHANGED <<tree, tables, chrdev_handlers>>

Unmapped ==
  /\ Idle
  /\ sys' = [InUser EXCEPT !.op = "unmapped"]
  /\ mode' = "panic"
  /\ UNCHANGED <<tree, walkVars, tables, chrdev_handlers, rax>>

(***************************************************************************)
(* A step of the walk.  At its end get_mount goes up from the node to the  *)
(* root, and reads a member of NULL if it does not come there.             *)
(***************************************************************************)
HasMount(n) ==
  LET up[m \in DOMAIN tree] ==
        m = Root \/ (tree[m].parent # NULL /\ up[tree[m].parent])
  IN  up[n]

Walking == mode = "run" /\ sys.op # "user" /\ walks # <<>>

WalkOn_NullTested ==                            \* variant: NULL tested first
  /\ Walking
  /\ WalkStep
  /\ UNCHANGED <<tables, chrdev_handlers, sys, rax, mode>>
WalkOn ==
  /\ Walking
  /\ Found => HasMount(Top.node)
  /\ WalkStep
  /\ UNCHANGED <<tables, chrdev_handlers, sys, rax, mode>>

WalkFaults ==
  /\ Walking
  /\ Found /\ ~HasMount(Top.node)
  /\ Panic
  /\ UNCHANGED <<tree, walkVars, tables, chrdev_handlers>>

-----------------------------------------------------------------------------
(***************************************************************************)
(* openat, after its walk.  A device without a driver has no open          *)
(* operation; that of a driver may fail.  A node without any operations    *)
(* does not come here, see OnlyMkdirUnmounted.                             *)
(***************************************************************************)
Walked(ops) ==
  mode = "run" /\ sys.op \in ops /\ walks = <<>> /\ result # Wild

HasDriver(n) == tree[n].fops = "tar_fops"
                  \/ (tree[n].fops = "chrdev" /\ tree[n].major \in chrdev_handlers)

OpenFails(ops) ==
  /\ Walked(ops)
  /\ \/ result = NULL
     \/ result # NULL /\ tree[result].fops = "chrdev" /\ HasDriver(result)
Opened(ops) == Walked(ops) /\ result # NULL

\* The walk left the kernel's stack.
WalkWild ==
  /\ mode = "run" /\ sys.op \in Walkers /\ walks = <<>> /\ result = Wild
  /\ GoWild
  /\ UNCHANGED <<tree, walkVars, tables, chrdev_handlers>>

(***************************************************************************)
(* do_openat and add_file.  The descriptor was chosen before the walk.     *)
(***************************************************************************)
OpenReturns_Retries(value) ==                   \* variant: until it is there
  /\ OpenFails({"open"})
  /\ WalkPath(cwd, sys.path)
  /\ UNCHANGED <<tables, chrdev_handlers, sys, rax, mode>>
OpenReturns_Leaks(value) ==                     \* variant: gfid taken first
  /\ OpenFails({"open"})
  /\ n_gfids' = n_gfids + 1
  /\ Return(value)
  /\ UNCHANGED <<tree, fdtable, n_fds, gfids, chrdev_handlers>>
OpenReturns(value) ==
  /\ OpenFails({"open"})
  /\ Return(value)
  /\ UNCHANGED <<tree, tables, chrdev_handlers>>

AddFile_KeepsCount(node) == gfids' = [gfids EXCEPT ![n_gfids] = node]
                              /\ UNCHANGED n_gfids     \* variant: no n_gfids++
AddFile(node) ==
  /\ gfids' = [gfids EXCEPT ![n_gfids] = node]
  /\ n_gfids' = n_gfids + 1

OpenAdds ==
  /\ Opened({"open"})
  /\ sys.fd < FD_MAX /\ n_gfids < GFID_MAX
  /\ AddFile(result)
  /\ fdtable' = [fdtable EXCEPT ![sys.fd] = n_gfids]
  /\ n_fds' = n_fds + 1
  /\ Return("fd")
  /\ UNCHANGED <<tree, chrdev_handlers>>

\* Neither table has its bound tested.
OpenOverruns ==
  /\ Opened({"open"})
  /\ sys.fd >= FD_MAX \/ n_gfids >= GFID_MAX
  /\ GoWild
  /\ UNCHANGED <<tree, walkVars, tables, chrdev_handlers>>

-----------------------------------------------------------------------------
\* A node at the end of a directory's children, whose bound is not tested.
HasRoom(dir) == Len(tree[dir].children) < Room(dir)
AddChild(dir, node) ==
  LET n == Len(tree) + 1
  IN  tree' = Append([tree EXCEPT ![dir].children = Append(@, n)], node)

(***************************************************************************)
(* do_mkdirat, when openat gave no file.  The directory goes into cwd,     *)
(* whatever the path says; its name is the path's basename with the slash  *)
(* it begins with, and more if openat had found a file but could not open  *)
(* it, as the path's copy has no end of its own.  The node's other fields  *)
(* stay blank: no operations, no parent, no mount.  tar_mkdir fails, which *)
(* nothing looks at, and no value is returned.                             *)
(***************************************************************************)
NewDir(name) == [type |-> "VFS_DIR", name |-> name, parent |-> NULL,
                 children |-> <<>>, symlink |-> <<>>, fops |-> "NULL",
                 major |-> 0, module |-> NULL, user |-> FALSE]
MkdirExists ==
  /\ Opened({"mkdir"})
  /\ Return("E_EXIST")
  /\ UNCHANGED <<tree, tables, chrdev_handlers>>
MkdirAdds ==
  /\ OpenFails({"mkdir"})
  /\ HasRoom(cwd)
  /\ \E junk \in Junk :
       /\ result = NULL => junk = <<>>
       /\ AddChild(cwd, NewDir(Basename(sys.path \o junk)))
  /\ Return("garbage")
  /\ UNCHANGED <<tables, chrdev_handlers>>
MkdirOverruns ==
  /\ OpenFails({"mkdir"})
  /\ ~HasRoom(cwd)
  /\ GoWild
  /\ UNCHANGED <<tree, walkVars, tables, chrdev_handlers>>

(***************************************************************************)
(* sys_mknod after its walk, and mkcdev.  The operations are those of the  *)
(* table of drivers, where one may be registered later.                    *)
(***************************************************************************)
NewDev(name, dir, major) ==
  [type |-> "VFS_CDEV", name |-> name, parent |-> dir, children |-> <<>>,
   symlink |-> <<>>, fops |-> "chrdev", major |-> major, module |-> NULL,
   user |-> TRUE]
MknodFaults ==
  /\ Walked({"mknod"}) /\ result = NULL
  /\ Panic
  /\ UNCHANGED <<tree, walkVars, tables, chrdev_handlers>>
MknodRefuses ==
  /\ Walked({"mknod"}) /\ result # NULL /\ tree[result].type # "VFS_DIR"
  /\ Return("1")
  /\ UNCHANGED <<tree, tables, chrdev_handlers>>
MknodAdds ==
  /\ Walked({"mknod"}) /\ result # NULL /\ tree[result].type = "VFS_DIR"
  /\ HasRoom(result)
  /\ AddChild(result, NewDev(sys.path, result, sys.major))
  /\ Return("0")
  /\ UNCHANGED <<tables, chrdev_handlers>>
MknodOverruns ==
  /\ Walked({"mknod"}) /\ result # NULL /\ tree[result].type = "VFS_DIR"
  /\ ~HasRoom(result)
  /\ GoWild
  /\ UNCHANGED <<tree, walkVars, tables, chrdev_handlers>>

\* The name of a device stays where the program put it.
UserOverwrites ==
  /\ Idle
  /\ \E n \in DOMAIN tree, name \in Names :
       tree[n].user /\ tree' = [tree EXCEPT ![n].name = name]
  /\ UNCHANGED <<walkVars, tables, chrdev_handlers, sys, rax, mode>>

-----------------------------------------------------------------------------
(***************************************************************************)
(* sys_lmod after its walk: load_module reads the file, and the module's   *)
(* init registers a driver.  Loading may fail, or fault on what the file   *)
(* says, see Loader; on a device without a driver it calls NULL, and with  *)
(* one it loads whatever comes in.                                         *)
(***************************************************************************)
LmodNoEntry_NotTested ==                        \* variant: file not tested
  /\ OpenFails({"lmod"})
  /\ Panic
  /\ UNCHANGED <<tree, walkVars, tables, chrdev_handlers>>
LmodNoEntry ==
  /\ OpenFails({"lmod"})
  /\ Return("E_NOENT")
  /\ UNCHANGED <<tree, tables, chrdev_handlers>>
LmodInvalid ==
  /\ Opened({"lmod"}) /\ HasDriver(result)
  /\ Return("E_INVAL")
  /\ UNCHANGED <<tree, tables, chrdev_handlers>>
Registers(n) ==
  IF tree[n].fops = "chrdev" THEN Majors ELSE {tree[n].module} \ {NULL}
LmodRegisters ==
  /\ Opened({"lmod"}) /\ HasDriver(result)
  /\ \E major \in Registers(result) :
       chrdev_handlers' = chrdev_handlers \union {major}
  /\ Return("0")
  /\ UNCHANGED <<tree, tables>>
LmodFaults ==
  /\ Opened({"lmod"})
  /\ Panic
  /\ UNCHANGED <<tree, walkVars, tables, chrdev_handlers>>

(***************************************************************************)
(* sys_read and sys_write, which are alike.  No gfid is ever removed, so   *)
(* one that is in the table has its file.  A descriptor that is no index   *)
(* reads a gfid from beside the table.  A device's read waits for input.   *)
(***************************************************************************)
Node(fd) == gfids[fdtable[fd]]
HasFile(fd) == fd \in DOMAIN fdtable /\ fdtable[fd] # 0

TransferClosed(fd) ==
  /\ Idle
  /\ fd \in DOMAIN fdtable => fdtable[fd] = 0
  /\ Return("E_FDCLSD")
  /\ UNCHANGED <<tree, tables, chrdev_handlers>>
TransferWild(fd) ==
  /\ Idle
  /\ fd \notin DOMAIN fdtable
  /\ GoWild
  /\ UNCHANGED <<tree, walkVars, tables, chrdev_handlers>>
Transfer(fd) ==
  /\ Idle
  /\ HasFile(fd) /\ HasDriver(Node(fd))
  /\ \E n \in {"n", "-1"} : Return(n)
  /\ UNCHANGED <<tree, tables, chrdev_handlers>>
TransferFaults(fd) ==
  /\ Idle
  /\ HasFile(fd) /\ ~HasDriver(Node(fd))
  /\ Panic
  /\ UNCHANGED <<tree, walkVars, tables, chrdev_handlers>>

ReadWaits(fd) ==
  /\ Idle
  /\ HasFile(fd) /\ HasDriver(Node(fd)) /\ tree[Node(fd)].fops = "chrdev"
  /\ sys' = [InUser EXCEPT !.op = "read", !.fd = fd]
  /\ UNCHANGED <<tree, walkVars, tables, chrdev_handlers, rax, mode>>
\* External: input.
ReadReturns ==
  /\ mode = "run" /\ sys.op = "read"
  /\ Return("n")
  /\ UNCHANGED <<tree, tables, chrdev_handlers>>

-----------------------------------------------------------------------------
Completion ==
  \/ WalkWild
  \/ OpenReturns("-1") \/ OpenAdds \/ OpenOverruns
  \/ MkdirExists \/ MkdirAdds \/ MkdirOverruns
  \/ MknodFaults \/ MknodRefuses \/ MknodAdds \/ MknodOverruns
  \/ LmodNoEntry \/ LmodInvalid \/ LmodRegisters \/ LmodFaults

FilesNext ==
  \/ \E p \in Paths : \/ SysOpen(p) \/ SysMkdir(p) \/ SysLmod(p)
                      \/ \E major \in Majors : SysMknod(p, major)
  \/ \E fd \in Fds : \/ TransferClosed(fd) \/ TransferWild(fd)
                     \/ Transfer(fd) \/ TransferFaults(fd) \/ ReadWaits(fd)
  \/ ReadReturns \/ Refuse \/ Unmapped \/ UserOverwrites
  \/ WalkOn \/ WalkFaults
  \/ Completion

FilesSpec == FilesInit /\ [][FilesNext]_fvars

(***************************************************************************)
(* The kernel goes on with a call, but for one that reads a device: that   *)
(* polls for input, and nobody has to type.                                *)
(***************************************************************************)
Waiting ==
  \/ sys.op = "read"
  \/ /\ Opened({"lmod"}) /\ tree[result].fops = "chrdev" /\ HasDriver(result)
FairFilesSpec ==
  /\ FilesSpec
  /\ WF_fvars(~Waiting /\ (WalkOn \/ WalkFaults \/ Completion))

-----------------------------------------------------------------------------
(***************************************************************************)
(* Types.  Each open takes one number of each table and a failed one none, *)
(* so the tables are filled without gaps and in step.                      *)
(***************************************************************************)
FilesTypeOK ==
  /\ tree \in Seq(VfsNode)
  /\ \A n \in DOMAIN tree :
       /\ tree[n].parent \in DOMAIN tree \union {NULL}
       /\ ToSet(tree[n].children) \subseteq DOMAIN tree
       /\ Len(tree[n].children) <= Room(n)
  /\ n_fds \in 0 .. FD_MAX /\ n_gfids = n_fds + 1 /\ n_gfids <= GFID_MAX
  /\ \A fd \in 0 .. FD_MAX - 1 :
       fdtable[fd] = IF fd < n_fds THEN fd + 1 ELSE 0
  /\ \A g \in 0 .. GFID_MAX - 1 :
       IF g \in 1 .. n_fds THEN gfids[g] \in DOMAIN tree ELSE gfids[g] = NULL
  /\ chrdev_handlers \subseteq Majors
  /\ sys.op \in Walkers \union {"user", "read", "unmapped"}
  /\ sys.op = "open" => sys.fd = n_fds
  /\ sys.op = "read" => sys.fd \in 0 .. n_fds - 1
  /\ sys.op \notin Walkers => walks = <<>>
  /\ mode \in {"run", "panic", "wild"}

(***************************************************************************)
(* A descriptor denotes the file it was opened on, for good, whatever is   *)
(* opened, made or fails to open later (open.c:24-45, gfid.c:10-15).       *)
(***************************************************************************)
D == INSTANCE Descriptors
       WITH Limit <- FD_MAX,
            files <- [i \in 1 .. n_fds |-> gfids[fdtable[i - 1]]]
ImplementsDescriptors == D!DescriptorsSpec

(***************************************************************************)
(* Only the directories that mkdir made are cut off from the root: nothing *)
(* is ever made in one, as the walk to it does not return, and a file that *)
(* was opened has a mount and operations to be read by (open.c:47-67,      *)
(* walk_path.c:10-18, tar_fileops.c:6-12).                                 *)
(***************************************************************************)
OnlyMkdirUnmounted ==
  /\ \A n \in DOMAIN tree :
       IF tree[n].fops = "NULL" THEN tree[n].children = <<>> ELSE HasMount(n)
  /\ \A fd \in 0 .. n_fds - 1 :
       HasMount(Node(fd)) /\ tree[Node(fd)].fops # "NULL"

(***************************************************************************)
(* What a program has to avoid: while it passes mapped memory only, makes  *)
(* no directory, makes a device only in a directory that exists, opens     *)
(* devices only after their driver's module, and does not load a module    *)
(* that faults as it is loaded, none of its calls stops the kernel.        *)
(***************************************************************************)
Undriven == {n \in DOMAIN tree : tree[n].fops = "chrdev" /\ ~HasDriver(n)}
PanicsExplained ==
  mode = "panic" =>
    \/ sys.op = "unmapped"
    \/ \E n \in DOMAIN tree : tree[n].fops = "NULL"
    \/ sys.op = "mknod" /\ result = NULL
    \/ sys.op = "lmod" /\ result # NULL
    \/ sys.op = "user" /\ \E fd \in 0 .. n_fds - 1 : Node(fd) \in Undriven

(***************************************************************************)
(* Each call returns to the program, unless it stops the kernel or comes   *)
(* to wait for the input of a device (walk_path.c:53-93, open.c:24-67,     *)
(* register_syscalls.c:51, load_module.c:21).                              *)
(***************************************************************************)
CallsReturn ==
  sys.op # "user" ~> (sys.op = "user" \/ mode # "run" \/ Waiting)
=============================================================================

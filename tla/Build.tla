------------------------------- MODULE Build -------------------------------
(***************************************************************************)
(* One build directory and the tools that use it, one after the other:     *)
(* `kstep build --linux', `kstep build' (what `kstep run' starts with too) *)
(* and the fuzzer (crates/kstep/src/build.rs, crates/kstep/src/session.rs, *)
(* crates/fuzz/src/main.rs).  What is up to date is decided by mtimes, and *)
(* a tool may be killed, or stop with an error, at any step.               *)
(*                                                                         *)
(* A file is what it was made of and when it was last written.  A kernel   *)
(* version stands for its sources and .config; Partial is a file that was  *)
(* being written when its writer was killed.                               *)
(***************************************************************************)
EXTENDS Naturals

CONSTANTS
  MaxEdits,  \* bound: edits of the kernel's sources and its .config
  MaxTime,   \* bound: writes that touch an mtime
  Clients    \* the fuzzer's clients, one per core

ASSUME BoundsAssumption == MaxEdits \in Nat /\ MaxTime \in Nat /\ Clients \in Nat \ {0}

VARIABLES
  now,       \* the time of the last write
  source,    \* the version of the sources and .config
  cfg,       \* the version .config was last changed at
  config,    \* the mtime of .config; 0 if there is none
  image,     \* linux/<ARCH.kernel_image>, as make left it
  symvers,   \* linux/Module.symvers is there
  kernel,    \* build/<name>/kernel, the copy that is booted
  kmod,      \* the kernel that the mirror's kmod.ko was compiled against; 0 if none
  rootfs,    \* rootfs.cpio: of is the kernel its kmod.ko was compiled against
  stream,    \* the snapshot's migration stream
  sidecar,   \* its ready line: the boot it is of
  log,       \* its kernel log: the boot it is of
  pc,        \* the step the running tool is at, "idle" if none runs
  tool,      \* which tool runs
  before,    \* build_linux()'s mtime of the image before make
  guest,     \* the cold boot a snapshot is being taken of
  ready,     \* the fuzzer's clients that have a snapshot
  cut        \* history: killed between a new image and the drop of the mirror

files   == <<config, image, symvers, kernel, kmod, rootfs, stream, sidecar, log>>
process == <<pc, tool, before, guest, ready>>
vars    == <<now, source, cfg, files, process, cut>>

Tools    == {"linux", "build", "fuzz"}
Partial  == 0
Missing  == [of |-> 0, at |-> 0]
Versions == 0 .. MaxEdits + 1
File     == [of: Versions, at: 0 .. MaxTime]
\* A boot is the kernel and the kmod.ko it was booted with.
Boots    == Versions \X Versions
NoBoot   == <<0, 0>>
Stream   == [of: Boots, at: 0 .. MaxTime]

Exists(f) == f.at # 0
Wait  == now < MaxTime          \* room for one more write
Touch == now' = now + 1

Init ==
  /\ now = 0 /\ source = 1 /\ cfg = 1
  /\ config = 0 /\ image = Missing /\ symvers = FALSE /\ kernel = Missing /\ kmod = 0
  /\ rootfs = Missing /\ stream = [of |-> NoBoot, at |-> 0] /\ sidecar = NoBoot /\ log = NoBoot
  /\ pc = "idle" /\ tool = "build" /\ before = 0 /\ guest = NoBoot /\ ready = 0
  /\ cut = FALSE

----------------------------------------------------------------------------
(* The developer, between two runs of a tool *)

\* The sources or a config fragment: only `--linux' picks it up.
EditSources ==
  /\ pc = "idle" /\ source <= MaxEdits
  /\ source' = source + 1
  /\ UNCHANGED <<now, cfg, files, process, cut>>

\* The .config itself, as menuconfig does.
EditConfig ==
  /\ pc = "idle" /\ source <= MaxEdits /\ config # 0 /\ Wait
  /\ Touch
  /\ source' = source + 1
  /\ cfg' = source'
  /\ config' = now'
  /\ UNCHANGED <<image, symvers, kernel, kmod, rootfs, stream, sidecar, log, process, cut>>

----------------------------------------------------------------------------
(* build_linux() and build_kstep() *)

\* Never built, or the .config changed since.
kernel_stale ==
  IF Exists(kernel) /\ config # 0 /\ symvers THEN kernel.at < config ELSE TRUE

Start(t) ==
  /\ pc = "idle"
  /\ tool' = t
  /\ pc' = IF t = "linux" THEN "configure" ELSE "build_kstep"
  /\ before' = 0 /\ guest' = NoBoot /\ ready' = 0
  /\ UNCHANGED <<now, source, cfg, files, cut>>

\* build_kstep() builds Linux first if it is stale, with the .config it has.
build_kstep ==
  /\ pc = "build_kstep"
  /\ pc' = IF ~kernel_stale THEN "kmod" ELSE IF config = 0 THEN "configure" ELSE "make"
  /\ UNCHANGED <<now, source, cfg, files, tool, before, guest, ready, cut>>

\* Merging the fragments writes the .config, changed or not.
configure ==
  /\ pc = "configure" /\ Wait
  /\ Touch
  /\ config' = now'
  /\ pc' = "make"
  /\ UNCHANGED <<source, cfg, image, symvers, kernel, kmod, rootfs, stream, sidecar, log,
                 tool, before, guest, ready, cut>>

\* make writes a new image if there is something to do ...
make_image ==
  /\ pc = "make" /\ Wait
  /\ before' = image.at
  /\ IF image.of = source THEN UNCHANGED <<now, image>>
     ELSE Touch /\ image' = [of |-> source, at |-> now']
  /\ pc' = "make_rest"
  /\ UNCHANGED <<source, cfg, config, symvers, kernel, kmod, rootfs, stream, sidecar, log,
                 tool, guest, ready, cut>>

\* ... and then the modules and Module.symvers.
make_rest ==
  /\ pc = "make_rest"
  /\ symvers' = TRUE
  /\ pc' = "copy"
  /\ UNCHANGED <<now, source, cfg, config, image, kernel, kmod, rootfs, stream, sidecar, log,
                 tool, before, guest, ready, cut>>

\* fs::copy: a fresh mtime whether the image changed or not.
copy_kernel ==
  /\ pc = "copy" /\ Wait
  /\ Touch
  /\ kernel' = [of |-> image.of, at |-> now']
  /\ pc' = "drop"
  /\ UNCHANGED <<source, cfg, config, image, symvers, kmod, rootfs, stream, sidecar, log,
                 tool, before, guest, ready, cut>>

\* It is never dropped.
drop_mirror_Never ==
  /\ pc = "drop"
  /\ pc' = IF tool = "linux" THEN "build_kstep" ELSE "kmod"
  /\ UNCHANGED <<now, source, cfg, files, tool, before, guest, ready, cut>>

\* A new image drops the kmod mirror, which kbuild would leave as it is.
drop_mirror ==
  /\ pc = "drop"
  /\ IF image.at # before THEN kmod' = 0 /\ cut' = FALSE ELSE UNCHANGED <<kmod, cut>>
  /\ pc' = IF tool = "linux" THEN "build_kstep" ELSE "kmod"
  /\ UNCHANGED <<now, source, cfg, config, image, symvers, kernel, rootfs, stream, sidecar, log,
                 tool, before, guest, ready>>

\* gcc for user, then make for the module: kbuild compiles it against the tree
\* as it was last made, unless its objects are there already.
build_kmod ==
  /\ pc = "kmod"
  /\ kmod' = IF kmod = 0 THEN image.of ELSE kmod
  /\ pc' = "rootfs"
  /\ UNCHANGED <<now, source, cfg, config, image, symvers, kernel, rootfs, stream, sidecar, log,
                 tool, before, guest, ready, cut>>

\* Written only if it would change.
build_rootfs_Changed ==
  /\ pc = "rootfs" /\ Wait
  /\ IF rootfs.of = kmod THEN UNCHANGED <<now, rootfs>>
     ELSE Touch /\ rootfs' = [of |-> kmod, at |-> now']
  /\ pc' = "built"
  /\ UNCHANGED <<source, cfg, config, image, symvers, kernel, kmod, stream, sidecar, log,
                 tool, before, guest, ready, cut>>

\* Packed and written every time.
build_rootfs ==
  /\ pc = "rootfs" /\ Wait
  /\ Touch
  /\ rootfs' = [of |-> kmod, at |-> now']
  /\ pc' = "built"
  /\ UNCHANGED <<source, cfg, config, image, symvers, kernel, kmod, stream, sidecar, log,
                 tool, before, guest, ready, cut>>

\* The command is over, or the fuzzer goes on to its clients.
Built ==
  /\ pc = "built"
  /\ pc' = IF tool = "fuzz" THEN "snapshot" ELSE "idle"
  /\ UNCHANGED <<now, source, cfg, files, tool, before, guest, ready, cut>>

----------------------------------------------------------------------------
(* Build::snapshot() and Session::snapshot(), once for each of the fuzzer's *)
(* clients                                                                  *)

fresh ==
  /\ stream.at # 0
  /\ \A f \in {kernel, rootfs} : Exists(f) /\ f.at < stream.at

snapshot ==
  /\ pc = "snapshot"
  /\ IF fresh THEN ready' = ready + 1 /\ pc' = IF ready' = Clients THEN "fuzz" ELSE "snapshot"
     ELSE pc' = "cold" /\ UNCHANGED ready
  /\ UNCHANGED <<now, source, cfg, files, tool, before, guest, cut>>

\* A cold boot up to the ready line: not with a half-written kernel or archive.
start_cold ==
  /\ pc = "cold"
  /\ kernel.of # Partial /\ rootfs.of # Partial
  /\ guest' = <<kernel.of, rootfs.of>>
  /\ pc' = "migrate"
  /\ UNCHANGED <<now, source, cfg, files, tool, before, ready, cut>>

migrate ==
  /\ pc = "migrate" /\ Wait
  /\ Touch
  /\ stream' = [of |-> guest, at |-> now']
  /\ pc' = "sidecar"
  /\ UNCHANGED <<source, cfg, config, image, symvers, kernel, kmod, rootfs, sidecar, log,
                 tool, before, guest, ready, cut>>

write_sidecar ==
  /\ pc = "sidecar"
  /\ sidecar' = guest
  /\ pc' = "log"
  /\ UNCHANGED <<now, source, cfg, config, image, symvers, kernel, kmod, rootfs, stream, log,
                 tool, before, guest, ready, cut>>

copy_log ==
  /\ pc = "log"
  /\ log' = guest
  /\ ready' = ready + 1
  /\ pc' = IF ready' = Clients THEN "fuzz" ELSE "snapshot"
  /\ UNCHANGED <<now, source, cfg, config, image, symvers, kernel, kmod, rootfs, stream, sidecar,
                 tool, before, guest, cut>>

----------------------------------------------------------------------------
(* A tool is killed, or a step of it fails and the rest is skipped.  What   *)
(* the step was writing may be left half-written, with a fresh mtime.       *)

Kill ==
  /\ pc # "idle"
  /\ pc' = "idle"
  /\ cut' = (cut \/ (pc \in {"make_rest", "copy", "drop"} /\ image.at # before))
  /\ \/ UNCHANGED <<now, kernel, rootfs, stream>>
     \/ /\ pc = "copy" /\ Wait /\ Touch
        /\ kernel' = [of |-> Partial, at |-> now']
        /\ UNCHANGED <<rootfs, stream>>
     \/ /\ pc = "rootfs" /\ Wait /\ Touch
        /\ rootfs' = [of |-> Partial, at |-> now']
        /\ UNCHANGED <<kernel, stream>>
     \/ /\ pc = "migrate" /\ Wait /\ Touch
        /\ stream' = [of |-> NoBoot, at |-> now']
        /\ UNCHANGED <<kernel, rootfs>>
  /\ UNCHANGED <<source, cfg, config, image, symvers, kmod, sidecar, log,
                 tool, before, guest, ready>>

Next ==
  \/ EditSources \/ EditConfig
  \/ \E t \in Tools : Start(t)
  \/ build_kstep \/ configure \/ make_image \/ make_rest \/ copy_kernel \/ drop_mirror
  \/ build_kmod \/ build_rootfs \/ Built
  \/ snapshot \/ start_cold \/ migrate \/ write_sidecar \/ copy_log
  \/ Kill

Spec == Init /\ [][Next]_vars

----------------------------------------------------------------------------
(* Properties *)

Steps == {"idle", "configure", "build_kstep", "make", "make_rest", "copy", "drop", "kmod",
          "rootfs", "built", "snapshot", "cold", "migrate", "sidecar", "log", "fuzz"}

\* Every mtime is one the clock has shown, every file is of a version that was.
TypeOK ==
  /\ now \in 0 .. MaxTime /\ source \in Versions \ {0} /\ cfg \in Versions \ {0}
  /\ config \in 0 .. now /\ before \in 0 .. now
  /\ image \in File /\ kernel \in File /\ rootfs \in File /\ kmod \in Versions
  /\ \A f \in {image, kernel, rootfs} : f.at <= now
  /\ stream.at <= now
  /\ \A f \in {image, kernel, rootfs} : f.of <= source
  /\ kmod <= source
  /\ symvers \in BOOLEAN /\ cut \in BOOLEAN
  /\ stream \in Stream /\ sidecar \in Boots /\ log \in Boots /\ guest \in Boots
  /\ pc \in Steps /\ tool \in Tools /\ ready \in 0 .. Clients

\* When the build is done, the archive's kmod.ko was compiled against the
\* kernel that will load it, unless a run was killed between make's new image
\* and the drop of the mirror (build_linux() compares the image's mtime before
\* and after its own make); and the kernel has the last change of its .config.
\* A kernel whose copy was cut short is neither.
StaleOnlyByCut ==
  pc = "built" /\ kernel.of # Partial =>
    /\ cut \/ rootfs.of = kernel.of
    /\ kernel.of >= cfg

\* The same without the excuse: the header of build.rs says that a kernel
\* build producing a new image drops the kmod mirror.
ModuleMatchesKernel ==
  pc = "built" /\ kernel.of # Partial => rootfs.of = kernel.of

\* What the fuzzer resumes its machines from is a whole stream, with the ready
\* line and the log of the same boot, and that boot is of the kernel and the
\* archive of this build: whatever was killed when before.
SnapshotUsable ==
  pc = "fuzz" => /\ stream.of = <<kernel.of, rootfs.of>>
                 /\ sidecar = stream.of
                 /\ log = stream.of

============================================================================

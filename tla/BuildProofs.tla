--------------------------- MODULE BuildProofs ---------------------------
(***************************************************************************)
(* Proofs about Build: for any number of edits, writes and clients, a      *)
(* kmod.ko that does not match its kernel comes only from a kill between   *)
(* make's new image and the drop of the mirror, and the fuzzer resumes     *)
(* from a whole and current snapshot whatever was killed before.           *)
(***************************************************************************)
EXTENDS Build, TLAPS

----------------------------------------------------------------------------
(* The inductive invariant of the proofs *)

\* The mirror is of the last image, or the image is new and the mirror is about
\* to be dropped, or that was cut short.
MirrorInv ==
  \/ kmod = 0 \/ kmod = image.of \/ cut
  \/ pc \in {"make_rest", "copy", "drop"} /\ image.at # before

\* The kernel is the last image, with the last .config, or it is known stale;
\* while make runs it is, so that a kill there is made good by the next build.
KernelInv ==
  /\ Exists(kernel) => symvers /\ config # 0
  /\ Exists(kernel) => kernel.at < config
                        \/ kernel.of = Partial
                        \/ (kernel.of = image.of /\ kernel.of >= cfg)
  /\ pc \in {"make", "make_rest", "copy"} => config # 0 /\ (kernel.at < config)
  /\ pc \in {"make_rest", "copy", "drop"} => image.of = source
  /\ pc \in {"copy", "drop"} => symvers
  /\ pc = "drop" => kernel = [of |-> image.of, at |-> now] /\ now > 0
  /\ pc \in {"kmod", "rootfs", "built"} => Exists(kernel) /\ kernel.at >= config
  /\ pc \in {"rootfs", "built"} => kmod # 0
  /\ pc = "built" => rootfs = [of |-> kmod, at |-> now]
  /\ image.of # 0 \/ ~Exists(kernel)
  /\ cfg <= source

\* A stream newer than the archive of this run was taken by this run.
SnapInv ==
  /\ pc = "built" => rootfs.at = now
  /\ pc \in {"migrate", "sidecar", "log"} => guest = <<kernel.of, rootfs.of>>
  /\ pc \in {"sidecar", "log"} => stream.of = guest
  /\ pc = "log" => sidecar = guest
  /\ (pc = "snapshot" /\ fresh) \/ pc = "fuzz" =>
       stream.of = <<kernel.of, rootfs.of>> /\ sidecar = stream.of /\ log = stream.of
  /\ pc \in {"snapshot", "cold", "migrate", "sidecar", "log"} => ready < Clients
  /\ pc \in {"configure", "build_kstep", "make", "make_rest", "copy", "drop", "kmod", "rootfs",
             "built"} => ready = 0

IInv == TypeOK /\ MirrorInv /\ KernelInv /\ SnapInv

----------------------------------------------------------------------------
\* Every step keeps the types and the order of the mtimes.
LEMMA TypeStep == IInv /\ [Next]_vars => TypeOK'
<1> SUFFICES ASSUME IInv, [Next]_vars
             PROVE  TypeOK'
  OBVIOUS
<1> USE BoundsAssumption DEF IInv, TypeOK, KernelInv, SnapInv, Versions, File, Stream, Boots, Missing, NoBoot, Partial, Exists, Wait, Touch, files, process, Tools, Steps
<1>1. CASE EditSources
  BY <1>1 DEF EditSources
<1>2. CASE EditConfig
  BY <1>2 DEF EditConfig
<1>3. ASSUME NEW t \in Tools, Start(t) PROVE TypeOK'
  BY <1>3 DEF Start
<1>4. CASE build_kstep
  BY <1>4 DEF build_kstep
<1>5. CASE configure
  BY <1>5 DEF configure
<1>6. CASE make_image
  BY <1>6 DEF make_image
<1>7. CASE make_rest
  BY <1>7 DEF make_rest
<1>8. CASE copy_kernel
  BY <1>8 DEF copy_kernel
<1>9. CASE drop_mirror
  <2>1. CASE image.at # before
    <3>1. cut' \in BOOLEAN
      BY <1>9, <2>1, Zenon DEF drop_mirror
    <3>2. kmod' \in Versions /\ kmod' <= source'
      BY <1>9, <2>1 DEF drop_mirror
    <3>3. QED
      BY <1>9, <2>1, <3>1, <3>2 DEF drop_mirror
  <2>2. CASE image.at = before
    BY <1>9, <2>2 DEF drop_mirror
  <2>3. QED
    BY <2>1, <2>2
<1>10. CASE build_kmod
  BY <1>10 DEF build_kmod
<1>11. CASE build_rootfs
  <2>1. rootfs' \in File /\ rootfs'.of <= source /\ rootfs'.at = now'
    BY <1>11 DEF build_rootfs
  <2>2. QED
    BY <1>11, <2>1 DEF build_rootfs
<1>12. CASE Built
  BY <1>12 DEF Built
<1>13. CASE snapshot
  BY <1>13 DEF snapshot
<1>14. CASE start_cold
  BY <1>14 DEF start_cold
<1>15. CASE migrate
  BY <1>15 DEF migrate
<1>16. CASE write_sidecar
  BY <1>16 DEF write_sidecar
<1>17. CASE copy_log
  BY <1>17 DEF copy_log
<1>18. CASE Kill
  BY <1>18 DEF Kill
<1>19. CASE UNCHANGED vars
  BY <1>19 DEF vars
<1>20. QED
  BY <1>1, <1>2, <1>3, <1>4, <1>5, <1>6, <1>7, <1>8, <1>9, <1>10, <1>11, <1>12, <1>13, <1>14, <1>15, <1>16, <1>17, <1>18, <1>19 DEF Next

\* Every step keeps what is known of the mirror: only make_image makes the
\* image newer than the mirror, and then with an mtime of its own.
LEMMA MirrorStep == IInv /\ [Next]_vars => MirrorInv'
<1> SUFFICES ASSUME IInv, [Next]_vars
             PROVE  MirrorInv'
  OBVIOUS
<1> USE BoundsAssumption DEF IInv, TypeOK, MirrorInv, KernelInv, Versions, File, Stream, Boots, Missing, NoBoot, Partial, Exists, Wait, Touch, files, process, Tools, Steps
<1>1. CASE EditSources
  BY <1>1 DEF EditSources
<1>2. CASE EditConfig
  BY <1>2 DEF EditConfig
<1>3. ASSUME NEW t \in Tools, Start(t) PROVE MirrorInv'
  BY <1>3 DEF Start
<1>4. CASE build_kstep
  BY <1>4 DEF build_kstep
<1>5. CASE configure
  BY <1>5 DEF configure
<1>6. CASE make_image
  BY <1>6 DEF make_image
<1>7. CASE make_rest
  BY <1>7 DEF make_rest
<1>8. CASE copy_kernel
  BY <1>8 DEF copy_kernel
<1>9. CASE drop_mirror
  BY <1>9 DEF drop_mirror
<1>10. CASE build_kmod
  BY <1>10 DEF build_kmod
<1>11. CASE build_rootfs
  BY <1>11 DEF build_rootfs
<1>12. CASE Built
  BY <1>12 DEF Built
<1>13. CASE snapshot
  BY <1>13 DEF snapshot
<1>14. CASE start_cold
  BY <1>14 DEF start_cold
<1>15. CASE migrate
  BY <1>15 DEF migrate
<1>16. CASE write_sidecar
  BY <1>16 DEF write_sidecar
<1>17. CASE copy_log
  BY <1>17 DEF copy_log
<1>18. CASE Kill
  BY <1>18 DEF Kill
<1>19. CASE UNCHANGED vars
  BY <1>19 DEF vars
<1>20. QED
  BY <1>1, <1>2, <1>3, <1>4, <1>5, <1>6, <1>7, <1>8, <1>9, <1>10, <1>11, <1>12, <1>13, <1>14, <1>15, <1>16, <1>17, <1>18, <1>19 DEF Next

\* Every step keeps what is known of the kernel.
LEMMA KernelStep == IInv /\ [Next]_vars => KernelInv'
<1> SUFFICES ASSUME IInv, [Next]_vars
             PROVE  KernelInv'
  OBVIOUS
<1> USE BoundsAssumption DEF IInv, TypeOK, KernelInv, kernel_stale, Versions, File, Stream, Boots, Missing, NoBoot, Partial, Exists, Wait, Touch, files, process, Tools, Steps
<1>1. CASE EditSources
  BY <1>1 DEF EditSources
<1>2. CASE EditConfig
  BY <1>2 DEF EditConfig
<1>3. ASSUME NEW t \in Tools, Start(t) PROVE KernelInv'
  BY <1>3 DEF Start
<1>4. CASE build_kstep
  BY <1>4 DEF build_kstep
<1>5. CASE configure
  BY <1>5 DEF configure
<1>6. CASE make_image
  BY <1>6 DEF make_image
<1>7. CASE make_rest
  BY <1>7 DEF make_rest
<1>8. CASE copy_kernel
  BY <1>8 DEF copy_kernel
<1>9. CASE drop_mirror
  <2>1. CASE image.at # before
    BY <1>9, <2>1 DEF drop_mirror
  <2>2. CASE image.at = before
    BY <1>9, <2>2 DEF drop_mirror
  <2>3. QED
    BY <2>1, <2>2
<1>10. CASE build_kmod
  BY <1>10 DEF build_kmod
<1>11. CASE build_rootfs
  BY <1>11 DEF build_rootfs
<1>12. CASE Built
  BY <1>12 DEF Built
<1>13. CASE snapshot
  BY <1>13 DEF snapshot
<1>14. CASE start_cold
  BY <1>14 DEF start_cold
<1>15. CASE migrate
  BY <1>15 DEF migrate
<1>16. CASE write_sidecar
  BY <1>16 DEF write_sidecar
<1>17. CASE copy_log
  BY <1>17 DEF copy_log
<1>18. CASE Kill
  BY <1>18 DEF Kill
<1>19. CASE UNCHANGED vars
  BY <1>19 DEF vars
<1>20. QED
  BY <1>1, <1>2, <1>3, <1>4, <1>5, <1>6, <1>7, <1>8, <1>9, <1>10, <1>11, <1>12, <1>13, <1>14, <1>15, <1>16, <1>17, <1>18, <1>19 DEF Next

\* Every step keeps what is known of the snapshot.
LEMMA SnapStep == IInv /\ [Next]_vars => SnapInv'
<1> SUFFICES ASSUME IInv, [Next]_vars
             PROVE  SnapInv'
  OBVIOUS
<1> USE BoundsAssumption DEF IInv, TypeOK, KernelInv, SnapInv, fresh, Versions, File, Stream, Boots, Missing, NoBoot, Partial, Exists, Wait, Touch, files, process, Tools, Steps
<1>1. CASE EditSources
  BY <1>1 DEF EditSources
<1>2. CASE EditConfig
  BY <1>2 DEF EditConfig
<1>3. ASSUME NEW t \in Tools, Start(t) PROVE SnapInv'
  BY <1>3 DEF Start
<1>4. CASE build_kstep
  BY <1>4 DEF build_kstep
<1>5. CASE configure
  BY <1>5 DEF configure
<1>6. CASE make_image
  BY <1>6 DEF make_image
<1>7. CASE make_rest
  BY <1>7 DEF make_rest
<1>8. CASE copy_kernel
  BY <1>8 DEF copy_kernel
<1>9. CASE drop_mirror
  BY <1>9 DEF drop_mirror
<1>10. CASE build_kmod
  BY <1>10 DEF build_kmod
<1>11. CASE build_rootfs
  BY <1>11 DEF build_rootfs
<1>12. CASE Built
  <2>1. ~fresh
    BY <1>12 DEF Built
  <2>2. ready < Clients
    BY <1>12 DEF Built
  <2>3. QED
    BY <1>12, <2>1, <2>2 DEF Built
<1>13. CASE snapshot
  BY <1>13 DEF snapshot
<1>14. CASE start_cold
  BY <1>14 DEF start_cold
<1>15. CASE migrate
  BY <1>15 DEF migrate
<1>16. CASE write_sidecar
  BY <1>16 DEF write_sidecar
<1>17. CASE copy_log
  BY <1>17 DEF copy_log
<1>18. CASE Kill
  BY <1>18 DEF Kill
<1>19. CASE UNCHANGED vars
  BY <1>19 DEF vars
<1>20. QED
  BY <1>1, <1>2, <1>3, <1>4, <1>5, <1>6, <1>7, <1>8, <1>9, <1>10, <1>11, <1>12, <1>13, <1>14, <1>15, <1>16, <1>17, <1>18, <1>19 DEF Next

\* The invariant holds of an empty build directory.
LEMMA InitInv == Init => IInv
<1> SUFFICES ASSUME Init PROVE IInv
  OBVIOUS
<1> USE BoundsAssumption DEF Init, Missing, NoBoot, Partial, Exists
<1>1. TypeOK
  <2>1. Missing \in File /\ NoBoot \in Boots
    BY DEF File, Boots, Versions
  <2>2. stream \in Stream
    BY <2>1 DEF Stream
  <2>3. pc \in Steps /\ tool \in Tools /\ symvers \in BOOLEAN /\ cut \in BOOLEAN
    BY DEF Steps, Tools
  <2>4. /\ now \in 0 .. MaxTime /\ source \in Versions \ {0} /\ cfg \in Versions \ {0}
        /\ config \in 0 .. now /\ before \in 0 .. now /\ kmod \in Versions /\ kmod <= source
        /\ ready \in 0 .. Clients
    BY DEF Versions
  <2>5. /\ \A f \in {image, kernel, rootfs} : f.at <= now /\ f.of <= source
        /\ stream.at <= now
    OBVIOUS
  <2>6. QED
    BY <2>1, <2>2, <2>3, <2>4, <2>5 DEF TypeOK
<1>2. MirrorInv /\ KernelInv
  BY DEF MirrorInv, KernelInv
<1>3. SnapInv
  BY DEF SnapInv, fresh
<1>4. QED
  BY <1>1, <1>2, <1>3 DEF IInv

\* The three parts hold of every state a tool can leave the directory in.
THEOREM BuildInvariant == Spec => []IInv
<1>1. Init => IInv
  BY InitInv
<1>2. IInv /\ [Next]_vars => IInv'
  BY TypeStep, MirrorStep, KernelStep, SnapStep DEF IInv
<1>3. QED
  BY <1>1, <1>2, PTL DEF Spec

\* Type correctness: the mtimes are past and the versions are known.
THEOREM BuildTypeCorrect == Spec => []TypeOK
<1>1. IInv => TypeOK
  BY DEF IInv
<1>2. QED
  BY <1>1, BuildInvariant, PTL

\* build_kstep() packs a kmod.ko compiled against the kernel it leaves, and that
\* kernel has the last .config, unless build_linux() was killed in its window.
THEOREM ModuleStaleOnlyByCut == Spec => []StaleOnlyByCut
<1>1. IInv => StaleOnlyByCut
  BY DEF IInv, TypeOK, MirrorInv, KernelInv, StaleOnlyByCut, Exists, Partial, File, Versions
<1>2. QED
  BY <1>1, BuildInvariant, PTL

\* The fuzzer never resumes from a partial or an outdated snapshot, however many
\* runs were killed before: its own build_rootfs() makes every older stream stale.
THEOREM SnapshotAlwaysUsable == Spec => []SnapshotUsable
<1>1. IInv => SnapshotUsable
  BY DEF IInv, SnapInv, SnapshotUsable
<1>2. QED
  BY <1>1, BuildInvariant, PTL

============================================================================

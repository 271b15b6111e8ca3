------------------------------ MODULE SysfsWalk ------------------------------
(***************************************************************************)
(* findUsbAddressFiles: from the directory of a block device towards the   *)
(* root, the first directory which has both files, busnum and devnum: that *)
(* of the USB device the block device is on. The directories above it may  *)
(* have the files too, as hubs are USB devices.                            *)
(*                                                                         *)
(* A chain is the sequence of directories from the canonical path up to    *)
(* the root, each the set of those of its files which matter; it is empty  *)
(* when the path does not exist any more.                                  *)
(*                                                                         *)
(* An operator named Slip... is a plausible slip in the definition which   *)
(* follows it; it is no part of the specification.                         *)
(***************************************************************************)
EXTENDS Naturals, Sequences

CONSTANTS
    MaxTraversalDepth, \* PLUGIN_USBDEVICE_MAX_TRAVERSAL_DEPTH
    MaxChain           \* bound on the length of the chains considered

ASSUME SysfsWalkAssumption == MaxTraversalDepth \in Nat \ {0} /\ MaxChain \in Nat

Files == {"busnum", "devnum"}

SlipEitherFile(chain) ==
    LET walk[i \in 1..Len(chain)] ==
          IF chain[i] # {} THEN i
          ELSE IF i = Len(chain) \/ i = MaxTraversalDepth THEN 0
          ELSE walk[i + 1]
    IN  IF chain = <<>> THEN 0 ELSE walk[1]

\* The place of the directory with the files in the chain, or 0. The loop stops at
\* the root, and after MaxTraversalDepth directories.
FindUsbAddressFiles(chain) ==
    LET walk[i \in 1..Len(chain)] ==
          IF chain[i] = Files THEN i
          ELSE IF i = Len(chain) \/ i = MaxTraversalDepth THEN 0
          ELSE walk[i + 1]
    IN  IF chain = <<>> THEN 0 ELSE walk[1]

\* The walk ends at the nearest device: no directory above it, be it a hub's, and
\* none with one file only is taken for it; and it finds every one which is not
\* further away than the bound.
WalkFindsNearest ==
    \A n \in 0..MaxChain : \A chain \in [1..n -> SUBSET Files] :
        LET r == FindUsbAddressFiles(chain)
            near == {i \in 1..n : i <= MaxTraversalDepth /\ chain[i] = Files}
        IN  IF near = {} THEN r = 0
                         ELSE r \in near /\ \A i \in near : r <= i
=============================================================================

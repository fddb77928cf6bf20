--------------------------- MODULE MCIoDevices ---------------------------
(* Small instances of IoDevices for TLC: two processes, PID 0 among them   *)
(* where it may be, and one or two devices of one name.                    *)
EXTENDS IoDevices

CONSTANTS d1, d2, h1, h2

OneAndTwo == {1, 2}
ZeroAndOne == {0, 1}

Disk == "DISCO"

DiskOnly == {Disk}

OneDisk == d1 :> Disk
TwoDisks == d1 :> Disk @@ d2 :> Disk

HandlerSymmetry == Permutations(Handlers)
=============================================================================

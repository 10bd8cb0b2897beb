---------------------------- MODULE BlockDevice ----------------------------
(***************************************************************************)
(* What the block device layer (storage.c over machine_nvsbdev.c) promises *)
(* to FatFS and to the USB host: a read returns the last write to the      *)
(* block it asked for, a write changes that block and no other, SYNC       *)
(* leaves nothing at risk, and a power cut can cost only the sector that   *)
(* was being rewritten.  It is the contract read off storage_read_block,   *)
(* storage_write_block and storage_flush; FlashCache implements it as long *)
(* as no breach occurs.                                                    *)
(***************************************************************************)
CONSTANTS Clients, Sectors, Offsets, Data, Contents, NoSector

VARIABLES
    disk,     \* what a read returns
    media,    \* what a power cut leaves
    open,     \* the one sector where they may differ, or NoSector
    asked,    \* the call each client is waiting for, or NoCall
    result    \* what each client's last call returned

vars == <<disk, media, open, asked, result>>

NoCall == [op |-> "none"]

Requests == [op : {"read"}, sec : Sectors, off : Offsets]
       \cup [op : {"write"}, sec : Sectors, off : Offsets, val : Data]
       \cup [op : {"sync"}]

Init == /\ disk \in [Sectors -> [Offsets -> Contents]]
        /\ media = disk
        /\ open = NoSector
        /\ asked = [c \in Clients |-> NoCall]
        /\ result = [c \in Clients |-> "none"]

Call(c, r) == /\ asked[c] = NoCall
              /\ asked' = [asked EXCEPT ![c] = r]
              /\ result' = [result EXCEPT ![c] = "none"]
              /\ UNCHANGED <<disk, media, open>>

\* The call is answered with v, once.
Answer(c, v) == /\ asked' = [asked EXCEPT ![c] = NoCall]
                /\ result' = [result EXCEPT ![c] = v]

Read(c) == /\ asked[c].op = "read"
           /\ Answer(c, disk[asked[c].sec][asked[c].off])
           /\ UNCHANGED <<disk, media, open>>

Open(s) == /\ open = NoSector
           /\ open' = s
           /\ UNCHANGED <<disk, media, asked, result>>

Write(c) == /\ asked[c].op = "write" /\ open = asked[c].sec
            /\ disk' = [disk EXCEPT ![asked[c].sec][asked[c].off] = asked[c].val]
            /\ Answer(c, "ok")
            /\ UNCHANGED <<media, open>>

\* Erasing and programming pass through any contents of the open sector.
WriteBack(s) == /\ open = s
                /\ \E img \in [Offsets -> Contents] :
                     media' = [media EXCEPT ![s] = img]
                /\ UNCHANGED <<disk, open, asked, result>>

Close(s) == /\ open = s
            /\ media[s] = disk[s]
            /\ open' = NoSector
            /\ UNCHANGED <<disk, media, asked, result>>

Sync(c) == /\ asked[c].op = "sync" /\ open = NoSector
           /\ Answer(c, "ok")
           /\ UNCHANGED <<disk, media, open>>

PowerCut == /\ disk' = media
            /\ open' = NoSector
            /\ asked' = [c \in Clients |-> NoCall]
            /\ result' = [c \in Clients |-> "none"]
            /\ UNCHANGED media

Next == \/ \E c \in Clients : \/ \E r \in Requests : Call(c, r)
                              \/ Read(c) \/ Write(c) \/ Sync(c)
        \/ \E s \in Sectors : Open(s) \/ WriteBack(s) \/ Close(s)
        \/ PowerCut

Spec == Init /\ [][Next]_vars
=============================================================================

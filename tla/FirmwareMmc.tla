----------------------------- MODULE FirmwareMmc ------------------------------
(***************************************************************************)
(* The MMC of one board, cell by cell, and how cmd/verify reads firmware   *)
(* back from it.  A cell is a block.  A bundle is named by the index of    *)
(* its entry in the firmware log; what it encodes to and its images are    *)
(* told apart by what they are, their position and their length.           *)
(***************************************************************************)
EXTENDS Integers

CONSTANTS
  Releases,     \* the entry at each index of the log: its component, and the
                \* lengths of its encoded config, firmware and HAB signature
  BootloaderBlock, BootloaderConfigBlock, OsBlock, AppletBlock,
  AppletDataBlock, AppletDataNumBlocks,
  MaxLength,    \* config.MaxLength
  MmcBlocks,    \* size of the MMC
  FactoryDisk   \* what is on the board before its first run

Indices    == DOMAIN Releases
Addresses  == 0 .. MmcBlocks - 1
Components == {"os", "applet", "boot", "recovery"}
OnMmc      == {"os", "applet", "boot"}

\* cmd/provision and cmd/verify each have a copy of these constants: 0x2,
\* 0x4FB0, 0x5000, 0x200000, 0x400000 and 0x400000 blocks more for the data.
ASSUME LayoutAssumption ==
  /\ BootloaderBlock \in Nat /\ BootloaderConfigBlock \in Nat /\ OsBlock \in Nat
  /\ AppletBlock \in Nat /\ AppletDataBlock \in Nat
  /\ AppletDataNumBlocks \in Nat \ {0} /\ MaxLength \in Nat \ {0} /\ MmcBlocks \in Nat
  /\ BootloaderBlock <= BootloaderConfigBlock
  /\ BootloaderConfigBlock + MaxLength <= OsBlock
  /\ OsBlock + MaxLength <= AppletBlock
  /\ AppletBlock + MaxLength <= AppletDataBlock
  /\ AppletDataBlock + AppletDataNumBlocks <= MmcBlocks

ASSUME ReleaseAssumption ==
  /\ Indices \subseteq Nat
  /\ \A i \in Indices :
       /\ Releases[i].comp \in Components
       /\ Releases[i].cfg \in Nat \ {0}
       /\ Releases[i].fw \in Nat /\ Releases[i].hab \in Nat

VARIABLE disk   \* the contents of each cell

\* config.Config: where the firmware is, and the proof bundle of its entry.
Configs == [offset : Nat, size : Nat, index : Indices]

\* What a cell holds: the k-th cell of an encoded config, of the firmware or of
\* the HAB signature of an entry; zeros; or something else.
Zero           == <<"zero", 0, 0>>
Other          == <<"other", 0, 0>>
ConfigCell(cfg, k)  == <<"config", cfg, k>>
FirmwareCell(i, k)  == <<"firmware", i, k>>
HabCell(i, k)       == <<"hab", i, k>>

Cells == {Zero, Other} \cup ({"config"} \X Configs \X Nat)
                       \cup ({"firmware", "hab"} \X Indices \X Nat)

\* Length of a config once encoded.
EncodedLen(cfg) == Releases[cfg.index].cfg

-----------------------------------------------------------------------------
(* cmd/verify.  A reader returns the set of what it reads: empty if it     *)
(* returns an error.                                                       *)

\* The GOB decoder reads one whole message from the start of the region and
\* does not look at what follows it.
readConfig(block) ==
  LET cfg == disk[block][2] IN
  IF /\ disk[block][1] = "config"
     /\ EncodedLen(cfg) <= MaxLength
     /\ \A k \in 0 .. EncodedLen(cfg) - 1 : disk[block + k] = ConfigCell(cfg, k)
  THEN {cfg} ELSE {}

readFirmware(cfgBlock) ==
  {[index |-> cfg.index,
    firmware |-> [k \in 0 .. cfg.size - 1 |-> disk[cfg.offset + k]]] :
     cfg \in {c \in readConfig(cfgBlock) : c.offset + c.size <= MmcBlocks}}

ConfigBlock(c) == CASE c = "boot"   -> BootloaderConfigBlock
                    [] c = "os"     -> OsBlock
                    [] c = "applet" -> AppletBlock

\* The tool gives up if one of the three cannot be read.
extractFirmware == [c \in OnMmc |-> readFirmware(ConfigBlock(c))]

\* What verify should read of a component the entry at index i was installed for.
BundleOf(i) ==
  [index |-> i, firmware |-> [k \in 0 .. Releases[i].fw - 1 |-> FirmwareCell(i, k)]]
=============================================================================

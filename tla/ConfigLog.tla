------------------------------ MODULE ConfigLog -----------------------------
(***************************************************************************)
(* The configuration store of config.c.  FLASH_SaveConfig writes the whole *)
(* segment page by page with its CRC and erases the log behind it,         *)
(* FLASH_LogData appends a record of a part in three writes, header, data  *)
(* and CRC, and FLASH_LoadConfig restores the segment at boot and replays  *)
(* the log until a record does not check or does not fit.  Power may fail  *)
(* between two writes.                                                     *)
(*                                                                         *)
(* Sizes are in words of 32 bits, the records have one word of data, a CRC *)
(* is what it was computed over, and a word of flash written twice is      *)
(* spoilt.  One context saves and logs: the two do not exclude each other, *)
(* and log_offset is not moved atomically.                                 *)
(***************************************************************************)
EXTENDS Integers, Sequences

CONSTANTS
  ConfigSize,   \* words of the segment, an even number
  Value,        \* the values of a word
  Default,      \* the value a word has at boot
  Logged,       \* the words the program logs
  LogRecords,   \* bound: records the log has room for
  MaxFailures   \* bound: power failures

ASSUME ConfigAssumption ==
  /\ ConfigSize \in Nat \ {0} /\ Default \in Value
  /\ LogRecords \in Nat /\ MaxFailures \in Nat
  /\ Logged \subseteq 0 .. ConfigSize - 1

VARIABLES
  config,       \* the segment in RAM
  image,        \* the segment in flash
  imageCrc,     \* its CRC
  log,          \* the words of flash behind it
  log_offset,   \* where the next record goes, in words of the log
  doing,        \* the write, or the part of the load, the program is at
  record,       \* the record being appended
  replay,       \* offset in FLASH_LoadConfig: the record it comes to
  ramCrc,       \* the CRC in RAM of what was saved last
  stages,       \* history: the segment as saved and after each record since;
                \* empty once a save was cut or a record went over another
  ever,         \* history: the words that were saved or logged, as pairs
  failures

configVars == <<config, image, imageCrc, log, log_offset, doing, record,
                replay, ramCrc, stages, ever, failures>>

WordsOf == 0 .. ConfigSize - 1
Erased == <<"erased">>
Spoilt == <<"spoilt">>
NoCrc == [w \in WordsOf |-> -1]
NoRecord == [offset |-> -1, value |-> Default]
LogSpace == 0 .. 3 * LogRecords - 1
Blank == [w \in LogSpace |-> Erased]
Pairs(segment) == {<<w, segment[w]>> : w \in WordsOf}

(* A device that has been saved once with the defaults. *)
ConfigInit ==
  /\ config = [w \in WordsOf |-> Default]
  /\ image = config /\ imageCrc = config /\ log = Blank
  /\ log_offset = 0 /\ doing = "idle" /\ record = NoRecord
  /\ ramCrc = NoCrc /\ replay = 0
  /\ stages = <<config>> /\ ever = Pairs(config) /\ failures = 0

flashVars == <<image, imageCrc, log>>
historyVars == <<stages, ever, failures>>

(* What the completed writes amount to. *)
Stored == stages[Len(stages)]

(* The program changes a word. *)
Change(w, v) ==
  /\ doing = "idle"
  /\ config' = [config EXCEPT ![w] = v]
  /\ UNCHANGED <<flashVars, log_offset, doing, record, replay, ramCrc,
                 historyVars>>

(* A write to the log: flash takes a word once. *)
WriteLog(position, word) ==
  log' = [log EXCEPT ![position] = IF @ = Erased THEN word ELSE Spoilt]

(* What is known after it. *)
IfErased(position, known) ==
  IF log[position] = Erased THEN known ELSE <<>>

(* The offset a header gets: 0xFFFF for what is not in the segment. *)
HeaderOffset(w) == IF 0 < w /\ w + 1 <= ConfigSize THEN w ELSE 65535

SlipReserve == 4
(* How far log_offset moves: header, data and CRC. *)
Reserve == 3

(* FLASH_LogData reserves the space and appends the header ... *)
LogHeader(w) ==
  /\ doing = "idle" /\ log_offset + 2 \in LogSpace
  /\ record' = [offset |-> HeaderOffset(w), value |-> config[w],
                at |-> log_offset]
  /\ log_offset' = log_offset + Reserve
  /\ WriteLog(log_offset, <<"header", HeaderOffset(w)>>)
  /\ stages' = IfErased(log_offset, stages)
  /\ doing' = "data"
  /\ UNCHANGED <<config, image, imageCrc, replay, ramCrc, ever, failures>>

(* ... the data ... *)
LogWord ==
  /\ doing = "data"
  /\ WriteLog(record.at + 1, <<"data", record.value>>)
  /\ stages' = IfErased(record.at + 1, stages)
  /\ doing' = "crc"
  /\ UNCHANGED <<config, image, imageCrc, log_offset, record, replay, ramCrc,
                 ever, failures>>

(* ... and the CRC. *)
LogCrc ==
  /\ doing = "crc"
  /\ WriteLog(record.at + 2, <<"crc", record.offset, record.value>>)
  /\ doing' = "idle" /\ record' = NoRecord
  /\ stages' = IF stages = <<>> THEN <<>>
               ELSE IfErased(record.at + 2, Append(stages,
                      [Stored EXCEPT ![record.offset] = record.value]))
  /\ ever' = ever \cup {<<record.offset, record.value>>}
  /\ UNCHANGED <<config, image, imageCrc, log_offset, replay, ramCrc, failures>>

(* FLASH_SaveConfig, unless the CRC in RAM says nothing has changed, writes *)
(* the first page ...                                                      *)
SavePage ==
  /\ doing = "idle" /\ ramCrc # config
  /\ ramCrc' = config
  /\ log_offset' = 0
  /\ image' = [w \in WordsOf |->
                 IF 2 * w < ConfigSize THEN config[w] ELSE image[w]]
  /\ doing' = "save"
  /\ UNCHANGED <<config, imageCrc, log, record, replay, historyVars>>

(* ... the others with the CRC ... *)
SaveRest ==
  /\ doing = "save"
  /\ image' = config /\ imageCrc' = ramCrc
  /\ ever' = ever \cup Pairs(config)
  /\ doing' = "erase"
  /\ UNCHANGED <<config, log, log_offset, record, replay, ramCrc, stages,
                 failures>>

(* ... and erases the log. *)
SaveErase ==
  /\ doing = "erase"
  /\ log' = Blank
  /\ doing' = "idle"
  /\ stages' = <<config>>
  /\ UNCHANGED <<config, image, imageCrc, log_offset, record, replay, ramCrc, ever,
                 failures>>

(* Power fails: RAM is lost. *)
PowerFails ==
  /\ doing # "off" /\ failures < MaxFailures
  /\ doing' = "off" /\ record' = NoRecord /\ ramCrc' = NoCrc /\ replay' = 0
  /\ config' = [w \in WordsOf |-> Default]
  /\ stages' = IF doing \in {"save", "erase"} THEN <<>> ELSE stages
  /\ failures' = failures + 1
  /\ UNCHANGED <<flashVars, log_offset, ever>>

(* Whether the header at a position makes the load go on: an erased one is *)
(* too long, and so is one that reaches the end of the segment, for the    *)
(* size counts the header.                                                 *)
Fits(p) ==
  /\ p \in LogSpace
  /\ \E w \in WordsOf : log[p] = <<"header", w>> /\ 2 + w <= ConfigSize

SlipChecks(p) == log[p + 1][1] = "data" /\ log[p + 2] # Spoilt
Checks(p) ==
  /\ log[p + 1][1] = "data"
  /\ log[p + 2] = <<"crc", log[p][2], log[p + 1][2]>>

(* FLASH_LoadConfig at boot takes the segment if its CRC is right ...      *)
Load ==
  /\ doing = "off"
  /\ log_offset' = 0
  /\ IF imageCrc = image THEN config' = image /\ doing' = "replay"
     ELSE UNCHANGED config /\ doing' = "loaded"
  /\ UNCHANGED <<flashVars, record, replay, ramCrc, historyVars>>

(* ... and the data of each record that fits and checks; one that does not *)
(* check cuts the load short and leaves log_offset at the start of the log *)
(* ...                                                                     *)
ReplayRecord ==
  /\ doing = "replay" /\ Fits(replay)
  /\ IF Checks(replay)
     THEN /\ config' = [config EXCEPT ![log[replay][2]] = log[replay + 1][2]]
          /\ replay' = replay + 3
          /\ UNCHANGED doing
     ELSE doing' = "loaded" /\ replay' = 0 /\ UNCHANGED config
  /\ UNCHANGED <<flashVars, log_offset, record, ramCrc, historyVars>>

(* ... and the next record goes where the first is that does not fit.      *)
ReplayEnds ==
  /\ doing = "replay" /\ ~Fits(replay)
  /\ log_offset' = replay /\ replay' = 0
  /\ doing' = "loaded"
  /\ UNCHANGED <<config, flashVars, record, ramCrc, historyVars>>

(* The program starts. *)
Start ==
  /\ doing = "loaded"
  /\ doing' = "idle"
  /\ UNCHANGED <<config, flashVars, log_offset, record, replay, ramCrc,
                 historyVars>>

ConfigNext ==
  \/ \E w \in Logged : LogHeader(w) \/ \E v \in Value : Change(w, v)
  \/ LogWord \/ LogCrc \/ SavePage \/ SaveRest \/ SaveErase
  \/ PowerFails \/ Load \/ ReplayRecord \/ ReplayEnds \/ Start

ConfigSpec == ConfigInit /\ [][ConfigNext]_configVars

-----------------------------------------------------------------------------
(* A boot restores what was saved and every record that was completed, and *)
(* nothing of a record that power cut off, as long as no save was cut off  *)
(* and no record went over another (which is what the next one does once a *)
(* load has been cut short).                                               *)
LoadRestores == doing = "loaded" /\ stages # <<>> => config = Stored

(* However often power fails, and whatever is overwritten, a word of the   *)
(* configuration is the default, or was saved or logged for that place.    *)
NothingInvented ==
  doing = "loaded" =>
    \A w \in WordsOf : config[w] = Default \/ <<w, config[w]>> \in ever
=============================================================================

------------------------------- MODULE Device -------------------------------
(***************************************************************************)
(* What the device keeps and the work of its idle loop: the configuration  *)
(* in flash, the heap with its collection, the tree of its objects, the    *)
(* services, its ciphers, digests and checksums.  Each behaviour is about  *)
(* one of them.                                                            *)
(***************************************************************************)
EXTENDS ConfigLog, Heap, Service, Tree, Aes, Stribog, Magma, Digest,
        Crc

CONSTANT Example    \* what the tests of the ciphers print or compare

VARIABLE part       \* what the behaviour is about

vars == <<part, configVars, heapVars, serviceVars, treeVars, cipherVars,
          digestVars, crcVars>>

(* The parts a behaviour is not about stay in one state. *)
Init ==
  /\ part \in {"config", "heap", "service", "tree", "cipher", "digest",
              "crc"}
  /\ ConfigInit /\ HeapInit /\ ServiceInit /\ TreeInit
  /\ AesInit \/ KuznInit \/ MagmaInit \/ StribogInit
  /\ part # "cipher" => cipher = "aes"
  /\ DigestInit /\ (part # "digest" => digest = "cmac")
  /\ CrcInit
  /\ part # "crc" => message = <<>> /\ adler.start = <<1, 0>>

Next ==
  /\ UNCHANGED part
  /\ IF part = "config" THEN ConfigNext ELSE UNCHANGED configVars
  /\ IF part = "heap" THEN HeapNext ELSE UNCHANGED heapVars
  /\ IF part = "service" THEN ServiceNext ELSE UNCHANGED serviceVars
  /\ IF part = "tree" THEN TreeNext ELSE UNCHANGED treeVars
  /\ IF part = "cipher" THEN AesNext \/ KuznNext \/ MagmaNext \/ StribogNext
     ELSE UNCHANGED cipherVars
  /\ IF part = "digest" THEN DigestNext ELSE UNCHANGED digestVars
  /\ IF part = "crc" THEN Feed ELSE UNCHANGED crcVars

Spec == Init /\ [][Next]_vars

-----------------------------------------------------------------------------
(* The fast forms of the checksums, of Kuznyechik and of Stribog give what *)
(* their plain forms give, and every cipher gives the example of its test. *)
FastAgrees ==
  /\ part = "crc" => CrcAgrees
  /\ part = "cipher" => KuznAgrees /\ StribogAgrees
  /\ \A e \in Example :
       cipher = e.cipher /\ plain = e.plain /\ phase = e.phase /\ round = e.round
         => state = e.state
=============================================================================

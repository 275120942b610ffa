---------------------------- MODULE WeixinMedia -----------------------------
(* Files on the WeChat channel (channels/weixin.py): what is sent is padded to   *)
(* whole blocks, encrypted and uploaded, its encrypted size announced before;    *)
(* what is received is fetched from one of two addresses, decrypted, unpadded    *)
(* and stored. A byte is a number, encryption a wrapper that keeps the length;   *)
(* the peer's client packs its files as this channel does.                       *)
EXTENDS Naturals, Sequences

CONSTANTS Block,          \* length of a cipher block: 16 in the code
          MaxLength       \* bound: longest file

VARIABLES step,           \* "idle", "chosen", "uploaded", "sent", "failed" or "stored"
          file,           \* the bytes of the file
          kind,           \* its media type
          size,           \* the filesize announced to getuploadurl
          wire,           \* what the CDN holds: [key, bytes]
          stored          \* what a download wrote, or None

vars == <<step, file, kind, size, wire, stored>>

Bytes    == 0..Block
MediaTypes == {"image", "file"}   \* image, and the three that need a key
KeyForms == {"raw", "hex", "none", "bad"}  \* base64 of 16 bytes, of 32 hex digits
NoWire   == [key |-> "none", bytes |-> <<>>]
NoBytes  == <<>>
Files    == UNION {[1..n -> Bytes] : n \in 0..MaxLength}

Init == step = "idle" /\ file = <<>> /\ kind = "file" /\ size = 0 /\ wire = NoWire /\ stored = NoBytes

Choose(f, k) == /\ step = "idle" /\ step' = "chosen" /\ file' = f /\ kind' = k
                /\ UNCHANGED <<size, wire, stored>>

Fill(n)       == [i \in 1..n |-> n]
Padded(d)     == d \o Fill(Block - (Len(d) % Block))
(* Mutated form of PaddedSize: rounded up, as a size without padding is. *)
PaddedSize_Rounded(n) == ((n + Block - 1) \div Block) * Block
PaddedSize(n) == ((n + 1 + (Block - 1)) \div Block) * Block
(* _pkcs7_unpad_safe: what does not look padded is left as it is. *)
PadLength(d)  == d[Len(d)]
LooksPadded(d) == /\ d # <<>> /\ Len(d) % Block = 0
                  /\ PadLength(d) \in 1..Block
                  /\ \A i \in Len(d) - PadLength(d) + 1 .. Len(d) : d[i] = PadLength(d)
Unpadded(d)   == IF LooksPadded(d) THEN SubSeq(d, 1, Len(d) - PadLength(d)) ELSE d

(* getuploadurl answers with an address or the upload fails; the CDN answers     *)
(* with the download parameter or it fails.                                      *)
Upload(address, param) ==
    /\ step = "chosen"
    /\ size' = PaddedSize(Len(file))
    /\ wire' = IF address THEN [key |-> "hex", bytes |-> Padded(file)] ELSE wire
    /\ step' = IF address /\ param THEN "uploaded" ELSE "failed"
    /\ UNCHANGED <<file, kind, stored>>
SendItem(ok) == /\ step = "uploaded" /\ step' = IF ok THEN "sent" ELSE "failed"
                /\ UNCHANGED <<file, kind, size, wire, stored>>
(* A picture may lie on the CDN as it is; a key may come in a form that          *)
(* _parse_aes_key refuses.                                                       *)
PeerSends(form) ==
    /\ step = "chosen" /\ step' = "sent"
    /\ wire' = [key |-> form, bytes |-> IF form = "none" THEN file ELSE Padded(file)]
    /\ size' = Len(wire'.bytes)
    /\ UNCHANGED <<file, kind, stored>>

(* The addresses in the order they are tried; after a time-out or 5xx of the     *)
(* first the second is tried, any other error ends the download.                 *)
Addresses == {<<"full_url">>, <<"param">>, <<"full_url", "param">>}
Answers   == {"ok", "transient", "refused"}
Fetched(addresses, answer) ==
    \/ answer[1] = "ok"
    \/ Len(addresses) = 2 /\ answer[1] = "transient" /\ answer[2] = "ok"
(* Only a picture is taken without a key; with a key that cannot be parsed the   *)
(* encrypted bytes are kept; nothing is stored of an empty file.                 *)
Decrypted(w) == CASE w.key = "none" -> w.bytes
                  [] w.key = "bad" -> <<"cipher">> \o w.bytes
                  [] OTHER -> Unpadded(w.bytes)
Download(addresses, answer) ==
    /\ step = "sent"
    /\ IF /\ kind = "image" \/ wire.key # "none"
          /\ Fetched(addresses, answer)
          /\ Decrypted(wire) # <<>>
         THEN step' = "stored" /\ stored' = Decrypted(wire)
         ELSE step' = "failed" /\ UNCHANGED stored
    /\ UNCHANGED <<file, kind, size, wire>>

Next == \/ \E f \in Files, k \in MediaTypes : Choose(f, k)
        \/ \E a, p \in BOOLEAN : Upload(a, p)
        \/ \E b \in BOOLEAN : SendItem(b)
        \/ \E k \in KeyForms : PeerSends(k)
        \/ \E a \in Addresses, r \in [1..2 -> Answers] : Download(a, r)
Spec == Init /\ [][Next]_vars
-----------------------------------------------------------------------------
(* The size is announced before the file is encrypted: it is the size of what is *)
(* uploaded for every length, also of whole blocks; and a file that is stored is *)
(* the file that was sent, whatever its last bytes look like, unless its key     *)
(* could not be parsed.                                                          *)
FilesSurvive == /\ step \in {"uploaded", "sent", "stored"} => size = Len(wire.bytes)
                /\ step = "stored" /\ wire.key # "bad" => stored = file
=============================================================================

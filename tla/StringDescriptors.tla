-------------------------- MODULE StringDescriptors --------------------------
(***************************************************************************)
(* What the plugin makes of the string descriptors of a device:            *)
(* getUSBDescriptorValue decodes one, and getUSBExtInfoStruct-             *)
(* FromDeviceDescriptor reads the languages of the device and, for up to   *)
(* four of them, the three strings of the product.                         *)
(*                                                                         *)
(* libusb is external: a read is a record of its return value and of the   *)
(* buffer it leaves, whose bytes are numbered from 0 and were zero before. *)
(*                                                                         *)
(* An operator named Slip... is a plausible slip in the definition which   *)
(* follows it; it is no part of the specification.                         *)
(***************************************************************************)
EXTENDS Integers, Sequences

CONSTANTS
    BufferSize, \* sizeof(descBuf)
    MaxText,    \* bound on the length of the texts considered
    Letters,    \* UTF-16 code units the texts are made of
    Failed      \* a string which cannot be read

CodeUnits == 0..65535

ASSUME StringDescriptorsAssumption ==
    /\ BufferSize = 256
    /\ MaxText \in 0..126 /\ Letters \subseteq CodeUnits
    /\ Failed \notin Seq(0..255)

DT_STRING == 3

Bytes == [0..BufferSize - 1 -> 0..255]

-----------------------------------------------------------------------------
(* One string: getUSBDescriptorValue.                                      *)

\* The rounds of the loop over a descriptor of that length, which is its first byte.
Rounds(length) == (length - 1) \div 2

\* A code unit which does not fit a char is cut to its low byte.
Decode(buf) == [k \in 1..Rounds(buf[0]) |-> (buf[2 * k] + 256 * buf[2 * k + 1]) % 256]

SlipLengthUnchecked(index, read, ascii) ==
    IF index <= 0 THEN Failed
    ELSE IF read.ret < 0 THEN ascii
    ELSE IF read.buf[1] # DT_STRING THEN Failed
    ELSE Decode(read.buf)

\* ascii is what the second attempt, libusb_get_string_descriptor_ascii, gives.
DescriptorValue(index, read, ascii) ==
    IF index <= 0 THEN Failed
    ELSE IF read.ret < 0 THEN ascii
    ELSE IF read.buf[1] # DT_STRING \/ read.buf[0] > read.ret THEN Failed
    ELSE Decode(read.buf)

\* The descriptor of a text, as a device sends it: a header of two bytes, then
\* UTF-16 in little-endian order.
Descriptor(text) ==
    [i \in 0..BufferSize - 1 |->
        IF i = 0 THEN 2 * Len(text) + 2
        ELSE IF i = 1 THEN DT_STRING
        ELSE IF i > 2 * Len(text) + 1 THEN 0
        ELSE IF i % 2 = 0 THEN text[i \div 2] % 256
        ELSE text[i \div 2] \div 256]

Texts == UNION {[1..n -> Letters] : n \in 0..MaxText}

\* What fits in a std::string of a text: the low byte of each unit. It is the text
\* itself when that is ASCII.
Narrowed(text) == [k \in DOMAIN text |-> text[k] % 256]

\* The buffer after a read of ret bytes.
Received(sent, ret) == [i \in 0..BufferSize - 1 |-> IF i < ret THEN sent[i] ELSE 0]

\* A string which arrives whole is decoded unit by unit, in its order and up to its
\* end: an ASCII string as the device has it, of others the high bytes are lost, and
\* nobody is told. What arrives short is refused: an answer never has a text with a
\* part of zeros which was never sent.
TextsArriveWhole ==
    \A text \in Texts : \A ret \in 0..2 * Len(text) + 2 :
        DescriptorValue(1, [ret |-> ret, buf |-> Received(Descriptor(text), ret)], Failed)
          = IF ret = 2 * Len(text) + 2 THEN Narrowed(text) ELSE Failed

-----------------------------------------------------------------------------
(* Languages and products: getUSBExtInfoStructFromDeviceDescriptor.        *)

Fields == {"manufacturer", "product", "serialNumber"}

Shown(value) == IF value = Failed THEN <<>> ELSE value

\* Division in C rounds towards zero, and numLanguageIds has eight bits.
LanguageCount(length) ==
    LET n == length - 2
    IN  (IF n >= 0 THEN n \div 2 ELSE -((-n) \div 2)) % 256

\* The language number k of the buffer.
LanguageId(buf, k) == buf[2 * k] + 256 * buf[2 * k + 1]

\* The strings of a device, in each language: what DescriptorValue makes of them.
LanguageIds == 0..65535

Product(id, strings) ==
    [languageId |-> id, text |-> [f \in Fields |-> Shown(strings[id][f])]]

SlipSerialDecides(read, strings) ==
    LET n == LanguageCount(read.buf[0])
    IN  [status |-> IF strings[LanguageId(read.buf, 1)]["serialNumber"] = Failed
                      THEN "ERROR_GENERAL" ELSE "ERROR_NONE",
         numLanguageIds |-> n,
         products |-> [k \in 1..IF n > 4 THEN 4 ELSE n |->
                         Product(LanguageId(read.buf, k), strings)]]

\* More than four bytes, which means several languages, are taken for an error of a
\* kind: the first product is read in language 0, and the answer is that of its
\* serial number. Otherwise as many languages are read as the first byte says, also
\* when nothing was received, and the answer is good whichever strings are missing.
ExtInfo(read, strings) ==
    IF read.ret > 4
      THEN [status |-> IF strings[0]["serialNumber"] = Failed
                         THEN "ERROR_GENERAL" ELSE "ERROR_NONE",
            numLanguageIds |-> 0,
            products |-> <<Product(0, strings)>>]
      ELSE LET n == LanguageCount(read.buf[0])
           IN  [status |-> "ERROR_NONE",
                numLanguageIds |-> n,
                products |-> [k \in 1..IF n > 4 THEN 4 ELSE n |->
                                Product(LanguageId(read.buf, k), strings)]]

\* The language descriptor of a device with these languages.
Languages(ids) ==
    [i \in 0..BufferSize - 1 |->
        IF i = 0 THEN 2 * Len(ids) + 2
        ELSE IF i = 1 THEN DT_STRING
        ELSE IF i > 2 * Len(ids) + 1 THEN 0
        ELSE IF i % 2 = 0 THEN ids[i \div 2] % 256
        ELSE ids[i \div 2] \div 256]

\* What DescriptorValue gives of the texts.
Strings == {Narrowed(text) : text \in Texts}

\* The strings of a device which has these in language id, but for the missing ones,
\* and no other language; and what is to be shown of them.
OnlyIn(id, missing, text) ==
    [x \in LanguageIds |-> [f \in Fields |->
        IF x # id \/ f \in missing THEN Failed ELSE text[f]]]

ToShow(missing, text) == [f \in Fields |-> IF f \in missing THEN <<>> ELSE text[f]]

\* A device with one language is described in that language, and a string which cannot
\* be read costs that string and nothing else.
DescribedIn(id) ==
    \A missing \in SUBSET Fields : \A text \in [Fields -> Strings] :
        ExtInfo([ret |-> 4, buf |-> Languages(<<id>>)], OnlyIn(id, missing, text))
          = [status |-> "ERROR_NONE", numLanguageIds |-> 1,
             products |-> <<[languageId |-> id, text |-> ToShow(missing, text)]>>]

\* It is so whichever language that is.
OneLanguageDescribed == \A id \in {7, 1033} : DescribedIn(id)
=============================================================================

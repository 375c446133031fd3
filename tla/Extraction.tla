----------------------------- MODULE Extraction -----------------------------
(***************************************************************************)
(* Which extractor gets a file: the MIME detection and the router.         *)
(*                                                                         *)
(* A MIME type stands for the arm of the router that takes it; "code" and  *)
(* "media" are the ones the router does not know (text/x-rust, video/mp4,  *)
(* ...), "binary" is application/octet-stream.  What the infer and         *)
(* mime_guess crates say of a file is part of the file: magic is the type  *)
(* of its signature, guess the type of its name's extension, known whether *)
(* its name is in the table of names without one.  A name that is not      *)
(* UTF-8 says nothing.                                                     *)
(***************************************************************************)
EXTENDS Naturals, Sequences

CONSTANT TextSniffBytes   \* TEXT_SNIFF_BYTES, how far is_text looks

ASSUME TextSniffBytesAssumption == TextSniffBytes \in Nat \ {0}

\* What infer can recognize, and what mime_guess can.
Signatures == {"pdf", "docx", "html", "archive", "image", "media"}
Extensions == Signatures \cup {"markdown", "json", "csv", "sql", "code",
                               "plain", "binary"}

\* No NUL byte near the beginning.
IsText(bytes) ==
    \A p \in DOMAIN bytes : p <= TextSniffBytes => bytes[p] # "0"

\* Makefile, Dockerfile and their like are text of one kind or another.
KnownFilename(file) == IF file.known THEN "plain" ELSE "none"

Detect(file) ==
    LET hints == <<file.magic, file.guess, KnownFilename(file)>>
        says(h) == hints[h] # "none"
    IN  IF \E h \in DOMAIN hints : says(h)
           THEN hints[CHOOSE h \in DOMAIN hints :
                          says(h) /\ \A g \in 1 .. h - 1 : ~says(g)]
           ELSE IF IsText(file.bytes) THEN "plain" ELSE "binary"

Routes ==
    [pdf |-> "Pdf", docx |-> "Docx", markdown |-> "Markdown", html |-> "Html",
     json |-> "Json", csv |-> "Csv", sql |-> "Sql", archive |-> "Archive",
     image |-> "Image"]

\* What the router has no arm for is plain text to it.
Router(mime) == IF mime \in DOMAIN Routes THEN Routes[mime] ELSE "Plaintext"

\* The extractors that share text_extraction.  The others are todo!(): they
\* panic, the panic is caught, and the file is a permanent failure.
TextFamily == {"Plaintext", "Csv", "Json", "Sql"}

Extracts(file) == Router(Detect(file)) \in TextFamily

=============================================================================

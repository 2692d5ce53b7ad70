-------------------------------- MODULE Compose --------------------------------
(***************************************************************************)
(* The form for a new campaign (frontend/components/ComposeModal.tsx) and  *)
(* how POST /api/emails/schedule gets the recipients from what it sends.   *)
(*                                                                         *)
(* The recipients come from a file, or from what the user types.  What     *)
(* becomes of a campaign that the route accepts is in ScheduleFallback.    *)
(***************************************************************************)
EXTENDS CsvParser

CONSTANTS
    Folders,         \* the files a user may have at hand: sets of files
    Texts,           \* what the user types: sequences of cells that are not blank
    Readers,         \* reads of files that may be under way at the same time
    MaxReplacements, \* bound on files selected in place of another
    MaxFailures      \* bound on requests and reads that fail and replies that are lost

\* A file is a sequence of rows of some cells.
Files == UNION Folders

ASSUME FilesAssumption == Files \subseteq Seq(Seq(Cells) \ {<<>>})
ASSUME TextsAssumption == Texts \subseteq Seq(Cells)
ASSUME ReplacementsAssumption == MaxReplacements \in Nat
ASSUME FailuresAssumption == MaxFailures \in Nat

VARIABLES
    folder,          \* the files to choose from
    form,            \* selectedFile and manualRecipients
    reading,         \* each FileReader at work, with the preview it will set
    preview,         \* parsedPreview; zero and zero when there is none
    isSubmitting,
    request,         \* POST /api/emails/schedule
    accepted,        \* history: campaigns accepted since the form was reset
    lost,            \* history: the reply of one of them was lost
    replaced,        \* how many files have been selected in place of another
    stale,           \* history: that preview is not of the file selected last
    failures

pageVars == <<form, reading, preview, replaced, stale>>
vars == <<folder, pageVars, isSubmitting, request, accepted, lost, failures>>

EmptyForm == [hasFile |-> FALSE, lines |-> <<>>, throws |-> FALSE, text |-> <<>>]
\* of is history: what was counted.
Counts(of, valid, all) == [of |-> of, valid |-> valid, invalid |-> all - valid]
NoPreview == Counts("none", 0, 0)
\* old is history: another file was selected while this one was read.
NoRead == [shows |-> NoPreview, old |-> FALSE]
NoRequest == [at |-> "none", form |-> EmptyForm, recipients |-> <<>>]

TypeOK ==
    /\ folder \in Folders
    /\ form.text \in Texts \union {<<>>}
    /\ form.hasFile => form.lines \in Files /\ form.throws \in BOOLEAN
    /\ \A p \in {reading[r].shows: r \in Readers} \union {preview}: p.valid >= 0 /\ p.invalid >= 0
    /\ replaced \in 0..MaxReplacements /\ stale \in BOOLEAN
    /\ isSubmitting \in BOOLEAN
    /\ request.at \in {"none", "server", "created", "error"}
    /\ request.recipients \in Seq(Cells)
    /\ accepted \in 0..(MaxFailures + 1)
    /\ lost \in BOOLEAN
    /\ failures \in 0..MaxFailures

Init ==
    /\ folder \in Folders
    /\ form = EmptyForm
    /\ reading = [r \in Readers |-> NoRead]
    /\ preview = NoPreview /\ replaced = 0 /\ stale = FALSE
    /\ isSubmitting = FALSE
    /\ request = NoRequest
    /\ accepted = 0 /\ lost = FALSE
    /\ failures = 0

Fault == failures < MaxFailures /\ failures' = failures + 1

-------------------------------------------------------------------------------
(* The form *)

\* Mutant: whatever is typed counts as an address.
PreviewOfText_All(text) == Counts("text", Len(text), Len(text))

PreviewOfText(text) ==
    Counts("text", Cardinality({i \in DOMAIN text: IsAddress(text[i])}), Len(text))

\* The field is disabled while a file is selected.  Without a text the last
\* preview stays.
TypeText(text) ==
    /\ ~form.hasFile
    /\ form' = [form EXCEPT !.text = text]
    /\ preview' = IF text = <<>> THEN preview ELSE PreviewOfText(text)
    /\ UNCHANGED <<folder, reading, replaced, stale, isSubmitting, request, accepted, lost, failures>>

\* Mutant: every line counts as an address.
PreviewOfFile_Lines(lines) == Counts("file", Len(ParsedRows(lines)), Len(ParsedRows(lines)))

\* The first cell of each line decides; an @ makes an address.
PreviewOfFile(lines) ==
    LET rows == ParsedRows(lines)
    IN Counts("file", Cardinality({i \in DOMAIN rows: IsAddress(rows[i][1])}), Len(rows))

Reading(r) == reading[r] # NoRead

\* A file is selected, the first one or another, and its preview follows when
\* it has been read.  Reads that are under way go on.
SelectFile(r, lines, throws) ==
    /\ ~Reading(r)
    /\ IF form.hasFile THEN replaced < MaxReplacements /\ replaced' = replaced + 1
       ELSE UNCHANGED replaced
    /\ form' = [form EXCEPT !.hasFile = TRUE, !.lines = lines, !.throws = throws]
    /\ reading' = [q \in Readers |->
          IF q = r THEN [shows |-> PreviewOfFile(lines), old |-> FALSE]
          ELSE IF Reading(q) THEN [reading[q] EXCEPT !.old = TRUE]
          ELSE NoRead]
    /\ UNCHANGED <<folder, preview, stale, isSubmitting, request, accepted, lost, failures>>

\* reader.onload, even when the form has been reset or another file selected.
ShowPreview(r) ==
    /\ Reading(r)
    /\ preview' = reading[r].shows /\ stale' = reading[r].old
    /\ reading' = [reading EXCEPT ![r] = NoRead]
    /\ UNCHANGED <<folder, form, replaced, isSubmitting, request, accepted, lost, failures>>

\* The file cannot be read, for which there is no handler: the last preview stays.
FailRead(r) ==
    /\ Reading(r) /\ Fault
    /\ reading' = [reading EXCEPT ![r] = NoRead]
    /\ stale' = (stale \/ ~reading[r].old)
    /\ UNCHANGED <<folder, form, preview, replaced, isSubmitting, request, accepted, lost>>

\* Mutant: the button is not disabled during a request.
CanSubmit_Always == TRUE

CanSubmit == ~isSubmitting

\* onSubmit sends the file, or without one the text.
Submit ==
    /\ CanSubmit
    /\ form.hasFile \/ form.text # <<>>
    /\ isSubmitting' = TRUE
    /\ request' = [at |-> "server", form |-> form, recipients |-> <<>>]
    /\ UNCHANGED <<folder, pageVars, accepted, lost, failures>>

-------------------------------------------------------------------------------
(* The route *)

\* recipientList.
Listed(f) == IF f.hasFile THEN ParseCsvOrText(f.lines, f.throws).valid ELSE f.text

\* Mutant: duplicates are told before the case is.
Unique_CaseSensitive(list) ==
    LET unique == FoldLeft(LAMBDA u, cell: IF Contains(u, cell) THEN u ELSE Append(u, cell),
                           <<>>, list)
    IN [i \in DOMAIN unique |-> Lower(unique[i])]

\* uniqueRecipients.
Unique(list) ==
    FoldLeft(LAMBDA u, cell: IF Contains(u, Lower(cell)) THEN u ELSE Append(u, Lower(cell)),
             <<>>, list)

\* The campaign is scheduled, unless it has no recipients or the route fails.
Schedule ==
    /\ request.at = "server"
    /\ LET unique == Unique(Listed(request.form)) IN
       \/ /\ unique # <<>>
          /\ request' = [request EXCEPT !.at = "created", !.recipients = unique]
          /\ accepted' = accepted + 1
          /\ UNCHANGED failures
       \/ /\ IF unique = <<>> THEN UNCHANGED failures ELSE Fault
          /\ request' = [request EXCEPT !.at = "error"]
          /\ UNCHANGED accepted
    /\ UNCHANGED <<folder, pageVars, isSubmitting, lost>>

\* The reply comes back: the form is reset and closed.
Succeed ==
    /\ request.at = "created"
    /\ form' = EmptyForm /\ preview' = NoPreview /\ stale' = FALSE
    /\ accepted' = 0 /\ lost' = FALSE
    /\ isSubmitting' = FALSE
    /\ request' = NoRequest
    /\ UNCHANGED <<folder, reading, replaced, failures>>

\* An error comes back, or a reply is lost: the form stays as it is.
Fail ==
    /\ \/ request.at = "error" /\ UNCHANGED <<lost, failures>>
       \/ request.at = "created" /\ Fault /\ lost' = TRUE
    /\ isSubmitting' = FALSE
    /\ request' = NoRequest
    /\ UNCHANGED <<folder, pageVars, accepted>>

-------------------------------------------------------------------------------
Next ==
    \/ \E text \in Texts \union {<<>>}: TypeText(text)
    \/ \E r \in Readers:
         \/ \E lines \in folder, throws \in BOOLEAN: SelectFile(r, lines, throws)
         \/ ShowPreview(r) \/ FailRead(r)
    \/ Submit \/ Schedule \/ Succeed \/ Fail

Spec == Init /\ [][Next]_vars

-------------------------------------------------------------------------------

\* One form makes one campaign, however often it is submitted and edited,
\* unless the reply of an accepted one was lost.
SecondCampaignNeedsLostReply == accepted > 1 => lost

\* No campaign lists a recipient twice, in whatever case, from a file or from a
\* text (routes/emails.ts, "Deduplicate recipients").
RecipientsAreDistinct ==
    IsInjective([i \in DOMAIN request.recipients |-> Lower(request.recipients[i])])

\* Each row of a selected file that holds an address anywhere is good for one,
\* and for no more: valid and duplicates account for those rows, and every valid
\* address is in the file (utils/csvParser.ts, the loop).
RowsYieldOneAddress ==
    LET rows == ParsedRows(form.lines)
        result == ParseRows(rows)
        rich == {i \in DOMAIN Data(rows): AddressesIn(Data(rows)[i]) # {}}
    IN /\ Len(result.valid) + Len(result.duplicates) = Cardinality(rich)
       /\ \A i \in rich: AddressesIn(Data(rows)[i]) \intersect ToSet(result.valid) # {}
       /\ \A c \in ToSet(result.valid): \E i \in rich: c \in AddressesIn(Data(rows)[i])

\* Whoever the header's column of the submitted file names is a recipient of the
\* accepted campaign, whatever other addresses the rows hold and whichever way
\* the file was read.
HeaderColumnWins ==
    LET rows == ParsedRows(request.form.lines) IN
    request.at = "created" /\ HasHeader(rows) => \A row \in ToSet(Data(rows)):
        NamedColumn(rows) \in DOMAIN row /\ IsAddress(row[NamedColumn(rows)]) =>
            Lower(row[NamedColumn(rows)]) \in ToSet(request.recipients)

\* A selected file means the same whether csv-parse takes it or throws, but for
\* a first row of nothing but commas, which hides the header from csv-parse's
\* rows only (utils/csvParser.ts, the catch block).
ParsersAgree ==
    LET rows == ParsedRows(form.lines) IN
    (rows # <<>> => \E i \in DOMAIN rows[1]: ~IsBlank(rows[1][i]))
        => ParseCsvOrText(form.lines, TRUE) = ParseCsvOrText(form.lines, FALSE)

\* What the page shows of a selected file, once the readers are done, is what the
\* route makes of it: recipients and repetitions are valid, the other rows are
\* not.  The exceptions are a file that could not be read, one read before an
\* earlier file was, one with a header, and rows that begin with no address.
PreviewCountsAddresses ==
    LET rows == ParsedRows(form.lines)
        result == ParseRows(rows)
    IN /\ form.hasFile /\ ~stale /\ \A r \in Readers: ~Reading(r)
       /\ ~HasHeader(rows)
       /\ \A row \in ToSet(rows): AddressesIn(row) # {} => IsAddress(row[1])
       => /\ preview.valid = Len(result.valid) + Len(result.duplicates)
          /\ preview.invalid = Cardinality({i \in DOMAIN rows: AddressesIn(rows[i]) = {}})

\* Whoever is scheduled without being an address was typed, and the page counted
\* someone as invalid before, unless the preview of an earlier file came late;
\* a file lets none of them through (ComposeModal.tsx:255, routes/emails.ts:47).
UncheckedWereAnnounced ==
    request.at = "created" /\ (\E cell \in ToSet(request.recipients): ~IsAddress(cell)) =>
        /\ ~request.form.hasFile
        /\ form = request.form /\ preview.of = "text" => preview.invalid > 0
===============================================================================

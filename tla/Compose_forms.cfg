SPECIFICATION Spec

CONSTANTS
    Words = {"a", "b"}
    Folders <- MCFolders
    Texts <- MCTexts
    Readers = {r1, r2}
    MaxReplacements = 1
    MaxFailures = 1

INVARIANTS
    SecondCampaignNeedsLostReply
    RecipientsAreDistinct
    RowsYieldOneAddress
    HeaderColumnWins
    ParsersAgree
    PreviewCountsAddresses
    UncheckedWereAnnounced

CHECK_DEADLOCK FALSE

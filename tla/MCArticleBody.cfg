SPECIFICATION Spec
CONSTANTS
  Texts <- MCTexts
  Own = "own"
  Others = {"a1", "a2", "a3"}
  UrlOf <- MCUrlOf
  ClientUrls <- MCClientUrls
  HostOf <- MCHostOf
  OutboundIds <- MCOutboundIds
  RawBodies <- MCRawBodies
INVARIANTS TypeOK LinksLeadHome EmbedsAreSafe TranslationKeepsBody

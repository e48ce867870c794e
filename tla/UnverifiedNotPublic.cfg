\* "Invariant: UNVERIFIED = NOT PUBLIC" (docs/CONTENT_SAFETY.md): a post with a thumbnail of its own.
SPECIFICATION ContentSpec
CONSTANTS
  Uploads = {photo, thumbnail}
  Clean = {photo}
  Posts = {p1}
  Trades = {}
  RefSlots = {"mediaUrl", "thumbnailUrl"}
  MaxVersion = 1
INVARIANT UnverifiedNotPublic
CHECK_DEADLOCK FALSE

CONSTANTS
  Key = {A}
  Check = {1}
SPECIFICATION QuietSpec
PROPERTIES ChecksDoNotEndTheProcess
